---- MODULE Spec2Model ----
(***************************************************************************)
(* Query resolution engine: normalizer, three-tier cache, heuristic        *)
(* parser, AI fallback and the orchestrator parse_query_ai.                *)
(*                                                                         *)
(* Text is modelled as a sequence of one-character strings, so that the    *)
(* substring rewrites of normalize_query and the substring tests of the    *)
(* detectors act as Python's str methods do.  An Optional value is the     *)
(* empty tuple (None) or a one-element tuple.                              *)
(***************************************************************************)
EXTENDS Integers, Sequences, FiniteSets, TLC

(* ------------------------------ str methods ---------------------------- *)

\* binds a computed value to a name: Let(e, LAMBDA x : body)
Let(v, F(_)) == F(v)

Lowers == <<"a","b","c","d","e","f","g","h","i","j","k","l","m","n","o","p","q","r","s","t","u","v","w","x","y","z">>
Uppers == <<"A","B","C","D","E","F","G","H","I","J","K","L","M","N","O","P","Q","R","S","T","U","V","W","X","Y","Z">>

IndexIn(c, seq) == CHOOSE i \in 1..Len(seq) : seq[i] = c
IsUpperC(c) == \E i \in 1..Len(Uppers) : Uppers[i] = c
IsLowerC(c) == \E i \in 1..Len(Lowers) : Lowers[i] = c
isalpha_c(c) == IsUpperC(c) \/ IsLowerC(c)
lower_c(c) == IF IsUpperC(c) THEN Lowers[IndexIn(c, Uppers)] ELSE c
upper_c(c) == IF IsLowerC(c) THEN Uppers[IndexIn(c, Lowers)] ELSE c
isspace_c(c) == c \in {" ", "\n", "\t"}

lower(s) == [i \in 1..Len(s) |-> lower_c(s[i])]
upper(s) == [i \in 1..Len(s) |-> upper_c(s[i])]
isalpha(s) == Len(s) > 0 /\ \A i \in 1..Len(s) : isalpha_c(s[i])

\* least index in 1..Len(s) whose character satisfies P, or Len(s) + 1
FirstWhere(s, P(_)) ==
    IF \E i \in 1..Len(s) : P(s[i])
    THEN CHOOSE i \in 1..Len(s) : P(s[i]) /\ \A j \in 1..(i - 1) : ~P(s[j])
    ELSE Len(s) + 1

\* greatest index whose character satisfies P, or 0
LastWhere(s, P(_)) ==
    IF \E i \in 1..Len(s) : P(s[i])
    THEN CHOOSE i \in 1..Len(s) : P(s[i]) /\ \A j \in (i + 1)..Len(s) : ~P(s[j])
    ELSE 0

NotSpace(c) == ~isspace_c(c)

lstrip(s) == SubSeq(s, FirstWhere(s, NotSpace), Len(s))
rstrip(s) == SubSeq(s, 1, LastWhere(s, NotSpace))
strip(s) == rstrip(lstrip(s))

startswith(s, p) == Len(s) >= Len(p) /\ SubSeq(s, 1, Len(p)) = p

MatchAt(s, sub, i) == i >= 1 /\ i + Len(sub) - 1 <= Len(s) /\ SubSeq(s, i, i + Len(sub) - 1) = sub

contains(s, sub) == \E i \in 1..(Len(s) - Len(sub) + 1) : MatchAt(s, sub, i)

\* str.find, 1-based; 0 when sub does not occur
find(s, sub) ==
    IF contains(s, sub)
    THEN CHOOSE i \in 1..(Len(s) - Len(sub) + 1) :
            MatchAt(s, sub, i) /\ \A j \in 1..(i - 1) : ~MatchAt(s, sub, j)
    ELSE 0

\* str.replace: leftmost non-overlapping occurrences, no rescan of the result
RECURSIVE replace(_, _, _)
replace(s, old, new) ==
    LET i == find(s, old)
    IN  IF i = 0 THEN s
        ELSE SubSeq(s, 1, i - 1) \o new \o replace(SubSeq(s, i + Len(old), Len(s)), old, new)

\* str.split(): the maximal runs of non-whitespace characters
RECURSIVE split(_)
split(s) ==
    LET t == lstrip(s)
        e == FirstWhere(t, isspace_c)
    IN  IF Len(t) = 0 THEN <<>>
        ELSE <<SubSeq(t, 1, e - 1)>> \o split(SubSeq(t, e, Len(t)))

\* ' '.join(words)
RECURSIVE join(_)
join(words) ==
    IF Len(words) = 0 THEN <<>>
    ELSE IF Len(words) = 1 THEN words[1]
    ELSE words[1] \o <<" ">> \o join(Tail(words))

IsNewline(c) == c = "\n"

\* q.split('\n')[0]
FirstLine(s) == SubSeq(s, 1, FirstWhere(s, IsNewline) - 1)

InWords(w, words) == \E i \in 1..Len(words) : words[i] = w

\* list.index(w)
WordIndex(w, words) ==
    CHOOSE i \in 1..Len(words) : words[i] = w /\ \A j \in 1..(i - 1) : words[j] # w

\* for old, new in table.items(): q = q.replace(old, new)
\* (each rewrite is evaluated before the next one is applied)
RECURSIVE ReplaceAll(_, _, _)
ReplaceAll(q, table, i) ==
    IF i > Len(table) THEN q
    ELSE LET r == replace(q, table[i][1], table[i][2])
         IN  IF Len(r) >= 0 THEN ReplaceAll(r, table, i + 1) ELSE r

(* --------------------------- detector word lists ------------------------- *)

SORT_SHORTEST == <<"s","h","o","r","t","e","s","t">>
SORT_LONGEST == <<"l","o","n","g","e","s","t">>
SORT_NEWEST == <<"n","e","w","e","s","t">>
PATTERN_STARTS_WITH == <<"s","t","a","r","t","s"," ","w","i","t","h">>

(* ----------------------------- normalize_query -------------------------- *)

abbreviations == <<
    <<<<" ","w","/","o"," ">>, <<" ","w","i","t","h","o","u","t"," ">>>>,
    <<<<" ","w","/"," ">>, <<" ","w","i","t","h"," ">>>>,
    <<<<" ","w"," ">>, <<" ","w","i","t","h"," ">>>>,
    <<<<" ","p","i","c"," ">>, <<" ","p","i","c","t","u","r","e"," ">>>>,
    <<<<" ","p","i","c","s"," ">>, <<" ","p","i","c","t","u","r","e","s"," ">>>>,
    <<<<" ","u"," ">>, <<" ","y","o","u"," ">>>>,
    <<<<" ","u","r"," ">>, <<" ","y","o","u","r"," ">>>>,
    <<<<" ","p","p","l"," ">>, <<" ","p","e","o","p","l","e"," ">>>>,
    <<<<" ","d","o","n","t"," ">>, <<" ","d","o","n","'","t"," ">>>>,
    <<<<" ","d","o","e","s","n","t"," ">>, <<" ","d","o","e","s","n","'","t"," ">>>>,
    <<<<" ","c","a","n","t"," ">>, <<" ","c","a","n","'","t"," ">>>>,
    <<<<" ","w","o","n","t"," ">>, <<" ","w","o","n","'","t"," ">>>> >>

synonyms == <<
    <<<<"b","e","g","i","n"," ","w","i","t","h">>, PATTERN_STARTS_WITH>>,
    <<<<"b","e","g","i","n","s"," ","w","i","t","h">>, PATTERN_STARTS_WITH>>,
    <<<<"b","e","g","i","n","n","i","n","g"," ","w","i","t","h">>, <<"s","t","a","r","t","i","n","g"," ","w","i","t","h">>>>,
    <<<<"s","t","a","r","t"," ","a","t">>, PATTERN_STARTS_WITH>>,
    <<<<"b","i","g"," ">>, SORT_LONGEST \o <<" ">>>>,
    <<<<"b","i","g","g","e","r"," ">>, SORT_LONGEST \o <<" ">>>>,
    <<<<"b","i","g","g","e","s","t"," ">>, SORT_LONGEST \o <<" ">>>>,
    <<<<"s","m","a","l","l"," ">>, SORT_SHORTEST \o <<" ">>>>,
    <<<<"s","m","a","l","l","e","r"," ">>, SORT_SHORTEST \o <<" ">>>>,
    <<<<"s","m","a","l","l","e","s","t"," ">>, SORT_SHORTEST \o <<" ">>>>,
    <<<<"r","e","c","e","n","t"," ">>, SORT_NEWEST \o <<" ">>>>,
    <<<<"n","e","w"," ">>, SORT_NEWEST \o <<" ">>>>,
    <<<<"l","a","t","e","s","t"," ">>, SORT_NEWEST \o <<" ">>>>,
    <<<<"s","i","g","n","u","p","s">>, <<"u","s","e","r","s">>>>,
    <<<<"w","o","m","e","n"," ">>, <<"f","e","m","a","l","e"," ">>>>,
    <<<<"m","e","n"," ">>, <<"m","a","l","e"," ">>>>,
    <<<<"g","u","y","s">>, <<"m","a","l","e"," ","u","s","e","r","s">>>>,
    <<<<"g","a","l","s">>, <<"f","e","m","a","l","e"," ","u","s","e","r","s">>>>,
    <<<<"l","a","d","i","e","s">>, <<"f","e","m","a","l","e"," ","u","s","e","r","s">>>>,
    <<<<"g","e","n","t","l","e","m","e","n">>, <<"m","a","l","e"," ","u","s","e","r","s">>>>,
    <<<<"n","o","n","-","b","i","n","a","r","y">>, <<"o","t","h","e","r"," ","g","e","n","d","e","r">>>>,
    <<<<"n","o","n","b","i","n","a","r","y">>, <<"o","t","h","e","r"," ","g","e","n","d","e","r">>>>,
    <<<<"n","b"," ">>, <<"o","t","h","e","r"," ","g","e","n","d","e","r"," ">>>>,
    <<<<"a","v","a","t","a","r">>, <<"p","r","o","f","i","l","e"," ","p","i","c","t","u","r","e">>>>,
    <<<<"a","v","a","t","a","r","s">>, <<"p","r","o","f","i","l","e"," ","p","i","c","t","u","r","e","s">>>>,
    <<<<"p","h","o","t","o">>, <<"p","i","c","t","u","r","e">>>>,
    <<<<"p","h","o","t","o","s">>, <<"p","i","c","t","u","r","e","s">>>>,
    <<<<"i","m","a","g","e">>, <<"p","i","c","t","u","r","e">>>>,
    <<<<"i","m","a","g","e","s">>, <<"p","i","c","t","u","r","e","s">>>> >>

starters == <<
    <<"s","h","o","w"," ","m","e">>, <<"f","i","n","d"," ","m","e">>, <<"g","e","t"," ","m","e">>, <<"l","i","s","t"," ","m","e">>, <<"g","i","v","e"," ","m","e">>,
    <<"s","h","o","w">>, <<"f","i","n","d">>, <<"g","e","t">>, <<"l","i","s","t">>, <<"s","e","a","r","c","h">>, <<"d","i","s","p","l","a","y">> >>

replacements == <<
    <<<<"f","e","m","a","l","e","s">>, <<"f","e","m","a","l","e">>>>,
    <<<<"m","a","l","e","s">>, <<"m","a","l","e">>>>,
    <<<<"u","s","e","r","s">>, <<"u","s","e","r">>>>,
    <<<<"p","e","o","p","l","e">>, <<"u","s","e","r">>>>,
    <<<<"p","e","r","s","o","n","s">>, <<"u","s","e","r">>>>,
    <<<<"a","l","l"," ","t","h","e">>, <<"a","l","l">>>>,
    <<<<"w","i","t","h"," ","t","h","e"," ","n","a","m","e">>, <<"n","a","m","e","d">>>>,
    <<<<"w","i","t","h"," ","t","h","e">>, <<"w","i","t","h">>>>,
    <<<<"i","n"," ","t","h","e">>, <<"i","n">>>>,
    <<<<"w","h","o","s","e"," ","n","a","m","e"," ">>, <<"w","h","o","s","e"," ","n","a","m","e","s"," ">>>>,
    <<<<"c","a","l","l","e","d">>, <<"n","a","m","e","d">>>> >>

filler_words == {<<"p","l","e","a","s","e">>, <<"c","o","u","l","d"," ","y","o","u">>, <<"c","a","n"," ","y","o","u">>, <<"w","o","u","l","d"," ","y","o","u">>, <<"w","i","l","l"," ","y","o","u">>,
                 <<"t","h","e">>, <<"a","n">>, <<"m","y">>}

\* for starter in starters: if q.startswith(starter + ' '): rewrite; break
RECURSIVE NormalizeStarter(_, _)
NormalizeStarter(q, i) ==
    IF i > Len(starters) THEN q
    ELSE IF startswith(q, starters[i] \o <<" ">>)
         THEN <<"s","h","o","w"," ">> \o strip(SubSeq(q, Len(starters[i]) + 1, Len(q)))
         ELSE NormalizeStarter(q, i + 1)

normalize_query(query) ==
    LET q0 == strip(lower(query))
        q1 == IF \E i \in 1..Len(q0) : q0[i] = "\n" THEN strip(FirstLine(q0)) ELSE q0
        q2 == join(split(q1))
        q3 == ReplaceAll(q2, abbreviations, 1)
        q4 == ReplaceAll(q3, synonyms, 1)
        q5 == NormalizeStarter(q4, 1)
        q6 == ReplaceAll(q5, replacements, 1)
        words == split(q6)
    IN  join(SelectSeq(words, LAMBDA w : w \notin filler_words))

(* ------------------------------ FilterSpec ------------------------------ *)

\* absent values: "None" for the enum and tri-state fields, <<>> for name_substr
None == "None"
NoName == <<>>

\* UserQueryFilters() with every field at its default
UserQueryFilters ==
    [ gender |-> None, name_substr |-> NoName, starts_with_mode |-> FALSE,
      name_length_parity |-> None, has_profile_pic |-> None, sort_by |-> None,
      sort_order |-> "desc", query_understood |-> TRUE, parse_warnings |-> <<>> ]

(* --------------------------- detector word lists ------------------------- *)

_LONGEST_WORDS == {SORT_LONGEST, <<"l","o","n","g">>, <<"b","i","g","g","e","s","t">>, <<"b","i","g">>, <<"m","o","s","t"," ","c","h","a","r","a","c","t","e","r","s">>}
_SHORTEST_WORDS == {SORT_SHORTEST, <<"s","h","o","r","t">>, <<"s","m","a","l","l","e","s","t">>, <<"s","m","a","l","l">>, <<"f","e","w","e","s","t">>, <<"l","e","a","s","t">>}
_NEWEST_WORDS == {SORT_NEWEST, <<"m","o","s","t"," ","r","e","c","e","n","t">>, <<"r","e","c","e","n","t","l","y"," ","c","r","e","a","t","e","d">>, <<"l","a","t","e","s","t">>, <<"r","e","c","e","n","t">>}
_OLDEST_WORDS == {<<"o","l","d","e","s","t">>, <<"f","i","r","s","t"," ","c","r","e","a","t","e","d">>, <<"e","a","r","l","i","e","s","t">>}
_ALPHA_ASC_WORDS == {<<"a","l","p","h","a","b","e","t","i","c","a","l">>, <<"a","-","z">>, <<"a"," ","t","o"," ","z">>}
_ALPHA_DESC_WORDS == {<<"r","e","v","e","r","s","e"," ","a","l","p","h","a","b","e","t","i","c","a","l">>, <<"z","-","a">>, <<"z"," ","t","o"," ","a">>}

_FEMALE_WORDS == {<<"f","e","m","a","l","e">>, <<"w","o","m","a","n">>, <<"w","o","m","e","n">>, <<"l","a","d","y">>, <<"l","a","d","i","e","s">>}
_MALE_WORDS == {<<"m","a","l","e">>, <<"g","u","y">>, <<"g","u","y","s">>, <<"m","a","n">>, <<"m","e","n">>}
_FEMALE_TYPOS == {<<"f","m","a","l","e">>, <<"f","e","m","a","l">>, <<"f","e","m","a","i","l","s">>, <<"f","e","m","a","i","l">>}
_NAME_PREFIXES == {<<"n","a","m","e","d">>, <<"c","a","l","l","e","d">>, <<"n","a","m","e">>}

\* a frozenset in the source; it is scanned here in the order it is written
_STARTS_WITH_PATTERNS == <<
    PATTERN_STARTS_WITH, <<"s","t","a","r","t","i","n","g"," ","w","i","t","h">>, <<"b","e","g","i","n","s"," ","w","i","t","h">>, <<"b","e","g","i","n","n","i","n","g"," ","w","i","t","h">>,
    <<"b","e","g","i","n"," ","w","i","t","h">>, <<"s","t","a","r","t"," ","w","i","t","h">>, <<"s","t","a","r","t"," ","a","t">>, <<"s","t","a","r","t","i","n","g"," ","l","e","t","t","e","r">> >>
_FILTER_WORDS == {
    <<"f","e","m","a","l","e">>, <<"m","a","l","e">>, <<"o","t","h","e","r">>, <<"n","e","w","e","s","t">>, <<"o","l","d","e","s","t">>, <<"l","a","t","e","s","t">>, <<"r","e","c","e","n","t">>,
    SORT_LONGEST, SORT_SHORTEST, <<"w","i","t","h">>, <<"w","i","t","h","o","u","t">>, <<"n","o">>, <<"u","s","e","r">>, <<"u","s","e","r","s">> }
_COMMAND_WORDS == {
    <<"f","i","n","d">>, <<"s","h","o","w">>, <<"l","i","s","t">>, <<"g","e","t">>, <<"s","e","a","r","c","h">>, <<"d","i","s","p","l","a","y">>, <<"g","i","v","e">>, <<"f","e","t","c","h">>,
    <<"a","l","l">>, <<"t","h","e">>, <<"u","s","e","r","s">>, <<"u","s","e","r">>, <<"p","e","o","p","l","e">>, <<"p","e","r","s","o","n">>, <<"n","a","m","e","s">>, <<"n","a","m","e">> }
_ARTICLES == {<<"a">>, <<"a","n">>, <<"t","h","e">>, <<"t","h","a","t">>, <<"i","s">>}
_SORTING_WORDS == {<<"o","l","d","e","s","t">>, SORT_NEWEST, SORT_LONGEST, SORT_SHORTEST, <<"w","i","t","h">>, <<"w","i","t","h","o","u","t">>}

AnyIn(subs, q) == \E w \in subs : contains(q, w)
WordSet(words) == {words[i] : i \in 1..Len(words)}
IsLetter(w) == Len(w) = 1 /\ isalpha_c(w[1])

(* ---------------------- detect_unsupported_patterns --------------------- *)

WARN_NEGATION == "Negation/exclusion queries are not supported - showing matching results instead"
WARN_OR_GENDER == "OR logic between genders is not supported - using first gender found"
WARN_ENDS_WITH == "Ends-with filtering is not supported - use 'contains' or 'starts with' instead"
WARN_EXACT_LENGTH == "Exact length filtering is not supported - only odd/even length is available"
WARN_NB == "Interpreted as 'non-binary'"
WARN_TYPO == "Interpreted as 'female' (possible typo corrected)"

\* detect_unsupported_patterns that says nothing about "or" between genders
detect_unsupported_patterns_silent_on_or(query_lower) ==
    LET words == WordSet(split(query_lower))
        has_negation == words \cap {<<"e","x","c","e","p","t">>, <<"e","x","c","l","u","d","e">>} # {}
        has_not_without_profile == <<"n","o","t">> \in words /\ ~contains(query_lower, <<"p","r","o","f","i","l","e">>)
    IN  (IF has_negation \/ has_not_without_profile THEN <<WARN_NEGATION>> ELSE <<>>)
     \o (IF contains(query_lower, <<"e","n","d","s"," ","w","i","t","h">>) \/ contains(query_lower, <<"e","n","d"," ","w","i","t","h">>)
         THEN <<WARN_ENDS_WITH>> ELSE <<>>)
     \o (IF <<"e","x","a","c","t","l","y">> \in words /\ words \cap {<<"l","e","t","t","e","r">>, <<"c","h","a","r">>, <<"c","h","a","r","a","c","t","e","r">>} # {}
         THEN <<WARN_EXACT_LENGTH>> ELSE <<>>)

detect_unsupported_patterns(query_lower) ==
    LET words == WordSet(split(query_lower))
        has_negation == words \cap {<<"e","x","c","e","p","t">>, <<"e","x","c","l","u","d","e">>} # {}
        has_not_without_profile == <<"n","o","t">> \in words /\ ~contains(query_lower, <<"p","r","o","f","i","l","e">>)
    IN  (IF has_negation \/ has_not_without_profile THEN <<WARN_NEGATION>> ELSE <<>>)
     \o (IF <<"o","r">> \in words /\ words \cap {<<"m","a","l","e">>, <<"f","e","m","a","l","e">>, <<"o","t","h","e","r">>} # {}
         THEN <<WARN_OR_GENDER>> ELSE <<>>)
     \o (IF contains(query_lower, <<"e","n","d","s"," ","w","i","t","h">>) \/ contains(query_lower, <<"e","n","d"," ","w","i","t","h">>)
         THEN <<WARN_ENDS_WITH>> ELSE <<>>)
     \o (IF <<"e","x","a","c","t","l","y">> \in words /\ words \cap {<<"l","e","t","t","e","r">>, <<"c","h","a","r">>, <<"c","h","a","r","a","c","t","e","r">>} # {}
         THEN <<WARN_EXACT_LENGTH>> ELSE <<>>)

(* ------------------------------ detect_sorting -------------------------- *)

_detect_length_sorting(query_lower, words, has_username, has_name) ==
    LET has_longest == AnyIn(_LONGEST_WORDS, query_lower)
        has_shortest == AnyIn(_SHORTEST_WORDS, query_lower)
        field == IF has_username THEN "username_length" ELSE "name_length"
        qualified == has_username \/ has_name \/ InWords(<<"f","i","r","s","t">>, words)
    IN  IF has_longest /\ qualified THEN <<<<field, "desc">>>>
        ELSE IF has_shortest /\ qualified THEN <<<<field, "asc">>>>
        ELSE <<>>

_detect_date_sorting(query_lower) ==
    IF AnyIn(_NEWEST_WORDS, query_lower) \/ contains(query_lower, <<"s","i","g","n","u","p","s">>)
    THEN <<<<"created_at", "desc">>>>
    ELSE IF AnyIn(_OLDEST_WORDS, query_lower) THEN <<<<"created_at", "asc">>>>
    ELSE <<>>

_detect_alpha_sorting(query_lower, has_username, has_name) ==
    IF AnyIn(_ALPHA_DESC_WORDS, query_lower)
    THEN <<<<IF has_username THEN "username" ELSE "name", "desc">>>>
    ELSE IF AnyIn(_ALPHA_ASC_WORDS, query_lower)
    THEN <<<<IF has_username THEN "username" ELSE "name", "asc">>>>
    ELSE <<>>

_detect_explicit_sort(words) ==
    LET has_sort_word == InWords(<<"s","o","r","t">>, words) \/ InWords(<<"s","o","r","t","e","d">>, words)
                         \/ InWords(<<"o","r","d","e","r">>, words) \/ InWords(<<"o","r","d","e","r","e","d">>, words)
    IN  IF ~(has_sort_word /\ InWords(<<"b","y">>, words)) THEN <<>>
        ELSE LET by_idx == WordIndex(<<"b","y">>, words)
             IN  IF by_idx + 1 > Len(words) THEN <<>>
                 ELSE LET sort_field == words[by_idx + 1]
                      IN  IF sort_field \in {<<"u","s","e","r","n","a","m","e">>, <<"u","s","e","r","n","a","m","e","s">>} THEN <<<<"username", "asc">>>>
                          ELSE IF sort_field \in {<<"n","a","m","e">>, <<"n","a","m","e","s">>} THEN <<<<"name", "asc">>>>
                          ELSE IF sort_field \in {<<"d","a","t","e">>, <<"c","r","e","a","t","e","d">>, <<"t","i","m","e">>}
                               THEN <<<<"created_at", "desc">>>>
                          ELSE <<>>

detect_sorting(query_lower) ==
    LET words == split(query_lower)
        has_username == contains(query_lower, <<"u","s","e","r","n","a","m","e">>) \/ contains(query_lower, <<"u","s","e","r","n","a","m","e","s">>)
        has_name == contains(query_lower, <<"n","a","m","e">>) \/ contains(query_lower, <<"n","a","m","e","s">>)
        r1 == _detect_length_sorting(query_lower, words, has_username, has_name)
        r2 == _detect_date_sorting(query_lower)
        r3 == _detect_alpha_sorting(query_lower, has_username, has_name)
        r4 == _detect_explicit_sort(words)
    IN  IF r1 # <<>> THEN r1[1]
        ELSE IF r2 # <<>> THEN r2[1]
        ELSE IF r3 # <<>> THEN r3[1]
        ELSE IF r4 # <<>> THEN r4[1]
        ELSE <<None, "desc">>

(* ------------------------ detect_profile_pic_filter --------------------- *)

image_words == {<<"p","i","c">>, <<"p","i","c","t","u","r","e">>, <<"p","h","o","t","o">>, <<"i","m","a","g","e">>, <<"a","v","a","t","a","r">>}

without_indicators == {
    <<"w","i","t","h","o","u","t"," ","p","i","c">>, <<"w","i","t","h","o","u","t"," ","p","i","c","s">>, <<"w","i","t","h","o","u","t"," ","p","h","o","t","o">>, <<"w","i","t","h","o","u","t"," ","p","h","o","t","o","s">>,
    <<"w","i","t","h","o","u","t"," ","p","r","o","f","i","l","e">>, <<"w","i","t","h","o","u","t"," ","a","v","a","t","a","r">>, <<"w","i","t","h","o","u","t"," ","a","v","a","t","a","r","s">>,
    <<"w","i","t","h","o","u","t"," ","p","i","c","t","u","r","e">>, <<"w","i","t","h","o","u","t"," ","p","i","c","t","u","r","e","s">>,
    <<"n","o"," ","p","i","c">>, <<"n","o"," ","p","i","c","s">>, <<"n","o"," ","p","h","o","t","o">>, <<"n","o"," ","p","h","o","t","o","s">>,
    <<"n","o"," ","p","r","o","f","i","l","e">>, <<"n","o"," ","a","v","a","t","a","r">>, <<"n","o"," ","a","v","a","t","a","r","s">>,
    <<"n","o"," ","p","i","c","t","u","r","e">>, <<"n","o"," ","p","i","c","t","u","r","e","s">>,
    <<"m","i","s","s","i","n","g"," ","p","i","c">>, <<"m","i","s","s","i","n","g"," ","p","i","c","s">>, <<"m","i","s","s","i","n","g"," ","p","h","o","t","o">>, <<"m","i","s","s","i","n","g"," ","p","h","o","t","o","s">>,
    <<"m","i","s","s","i","n","g"," ","p","r","o","f","i","l","e">>, <<"m","i","s","s","i","n","g"," ","a","v","a","t","a","r">>, <<"m","i","s","s","i","n","g"," ","p","i","c","t","u","r","e">>,
    <<"d","o","n","'","t"," ","h","a","v","e"," ","p","i","c">>, <<"d","o","n","'","t"," ","h","a","v","e"," ","p","i","c","t","u","r","e">>, <<"d","o","n","'","t"," ","h","a","v","e"," ","p","h","o","t","o">>,
    <<"d","o","e","s","n","'","t"," ","h","a","v","e"," ","p","i","c">>, <<"d","o","e","s","n","'","t"," ","h","a","v","e"," ","p","i","c","t","u","r","e">>, <<"d","o","e","s","n","'","t"," ","h","a","v","e"," ","p","h","o","t","o">>,
    <<"w","/","o"," ","p","i","c">>, <<"w","/","o"," ","p","h","o","t","o">>, <<"w","/","o"," ","p","r","o","f","i","l","e">>, <<"w","/","o"," ","a","v","a","t","a","r">> }

has_indicators == {
    <<"w","i","t","h"," ","p","i","c">>, <<"w","i","t","h"," ","p","h","o","t","o">>, <<"w","i","t","h"," ","p","r","o","f","i","l","e">>, <<"w","i","t","h"," ","a","v","a","t","a","r">>,
    <<"w","i","t","h"," ","p","i","c","t","u","r","e">>, <<"w","i","t","h"," ","p","i","c","s">>, <<"w","i","t","h"," ","p","h","o","t","o","s">>, <<"w","i","t","h"," ","a","v","a","t","a","r","s">>,
    <<"h","a","s"," ","p","i","c">>, <<"h","a","s"," ","p","h","o","t","o">>, <<"h","a","s"," ","a","v","a","t","a","r">>, <<"h","a","s"," ","p","i","c","t","u","r","e">>,
    <<"h","a","v","e"," ","p","i","c">>, <<"h","a","v","e"," ","p","h","o","t","o">>, <<"h","a","v","e"," ","a","v","a","t","a","r">>, <<"h","a","v","e"," ","p","i","c","t","u","r","e">>,
    <<"g","o","t"," ","p","i","c">>, <<"g","o","t"," ","p","h","o","t","o">>, <<"g","o","t"," ","a","v","a","t","a","r">>, <<"g","o","t"," ","p","i","c","t","u","r","e">>,
    <<"p","r","o","f","i","l","e"," ","p","i","c">>, <<"p","r","o","f","i","l","e"," ","p","i","c","t","u","r","e">>, <<"p","r","o","f","i","l","e"," ","p","h","o","t","o">> }

\* True / False / None as "True" / "False" / "None"
detect_profile_pic_filter(query_lower) ==
    IF ~AnyIn(image_words, query_lower) /\ ~contains(query_lower, <<"p","r","o","f","i","l","e">>) THEN None
    ELSE IF AnyIn(without_indicators, query_lower) THEN "False"
    ELSE IF AnyIn(has_indicators, query_lower) THEN "True"
    ELSE None

(* ------------------------ detect_name_length_parity --------------------- *)

detect_name_length_parity(query_lower) ==
    LET has_length_word == AnyIn({<<"l","e","t","t","e","r">>, <<"c","h","a","r","a","c","t","e","r">>, <<"l","e","n","g","t","h">>}, query_lower)
        qualified == has_length_word \/ contains(query_lower, <<"n","a","m","e">>)
    IN  IF contains(query_lower, <<"o","d","d">>) /\ qualified THEN "odd"
        ELSE IF contains(query_lower, <<"e","v","e","n">>) /\ qualified THEN "even"
        ELSE None

(* ------------------------------- detect_gender -------------------------- *)

_is_name_not_gender(gender_word, words) ==
    IF ~InWords(gender_word, words) THEN FALSE
    ELSE LET idx == WordIndex(gender_word, words)
         IN  idx > 1 /\ words[idx - 1] \in _NAME_PREFIXES

\* each gender detector returns <<>> or <<<<gender, warning>>>>
_detect_other_gender(query_lower, words) ==
    IF contains(query_lower, <<"o","t","h","e","r"," ","g","e","n","d","e","r">>) \/ contains(query_lower, <<"o","t","h","e","r","-","g","e","n","d","e","r">>)
    THEN <<<<"Other", None>>>>
    ELSE IF contains(query_lower, <<"n","o","n","-","b","i","n","a","r","y">>) \/ contains(query_lower, <<"n","o","n"," ","b","i","n","a","r","y">>)
            \/ contains(query_lower, <<"n","o","n","b","i","n","a","r","y">>)
    THEN <<<<"Other", None>>>>
    ELSE IF InWords(<<"n","b">>, words) THEN <<<<"Other", WARN_NB>>>>
    ELSE <<>>

_detect_female_gender(query_lower, words) ==
    IF _is_name_not_gender(<<"f","e","m","a","l","e">>, words) THEN <<>>
    ELSE IF (\E w \in _FEMALE_WORDS : InWords(w, words)) \/ contains(query_lower, <<"f","e","m","a","l","e">>)
    THEN <<<<"Female", None>>>>
    ELSE IF AnyIn(_FEMALE_TYPOS, query_lower) /\ ~InWords(<<"m","a","l","e">>, words)
    THEN <<<<"Female", WARN_TYPO>>>>
    ELSE <<>>

_detect_male_gender(words) ==
    IF _is_name_not_gender(<<"m","a","l","e">>, words) THEN <<>>
    ELSE IF \E w \in _MALE_WORDS : InWords(w, words) THEN <<<<"Male", None>>>>
    ELSE <<>>

\* detect_gender that looks for the male words before the female ones
detect_gender_male_first(query_lower) ==
    LET words == split(query_lower)
        r1 == _detect_other_gender(query_lower, words)
        r2 == _detect_female_gender(query_lower, words)
        r3 == _detect_male_gender(words)
    IN  IF r1 # <<>> THEN r1[1]
        ELSE IF r3 # <<>> THEN r3[1]
        ELSE IF r2 # <<>> THEN r2[1]
        ELSE IF ~_is_name_not_gender(<<"o","t","h","e","r">>, words) /\ InWords(<<"o","t","h","e","r">>, words)
                /\ (contains(query_lower, <<"g","e","n","d","e","r">>) \/ contains(query_lower, <<"u","s","e","r">>))
        THEN <<"Other", None>>
        ELSE <<None, None>>

detect_gender(query_lower) ==
    LET words == split(query_lower)
        r1 == _detect_other_gender(query_lower, words)
        r2 == _detect_female_gender(query_lower, words)
        r3 == _detect_male_gender(words)
    IN  IF r1 # <<>> THEN r1[1]
        ELSE IF r2 # <<>> THEN r2[1]
        ELSE IF r3 # <<>> THEN r3[1]
        ELSE IF ~_is_name_not_gender(<<"o","t","h","e","r">>, words) /\ InWords(<<"o","t","h","e","r">>, words)
                /\ (contains(query_lower, <<"g","e","n","d","e","r">>) \/ contains(query_lower, <<"u","s","e","r">>))
        THEN <<"Other", None>>
        ELSE <<None, None>>

(* --------------------------- detect_name_search ------------------------- *)

\* "'".join(part.capitalize() for part in name.split("'"))
_capitalize_name(name) ==
    [i \in 1..Len(name) |->
        IF i = 1 \/ name[i - 1] = "'" THEN upper_c(name[i]) ELSE lower_c(name[i])]

\* str.title(): a letter that follows a non-letter is upper-cased, any other lower-cased
title(s) ==
    [i \in 1..Len(s) |->
        IF i = 1 \/ ~isalpha_c(s[i - 1]) THEN upper_c(s[i]) ELSE lower_c(s[i])]

\* least index satisfying P among 1..n, or 0
FirstIndex(n, P(_)) ==
    IF \E i \in 1..n : P(i)
    THEN CHOOSE i \in 1..n : P(i) /\ \A j \in 1..(i - 1) : ~P(j)
    ELSE 0

\* name detectors return <<>> or <<<<name_substr, starts_with_mode>>>>;
\* _extract_word_after returns <<>> or <<word>>
_extract_word_after(query_lower, keywords, excluded_words) ==
    Let(split(query_lower), LAMBDA words :
        Let(FirstIndex(Len(words), LAMBDA i : /\ words[i] \in keywords
                                              /\ i + 1 <= Len(words)
                                              /\ words[i + 1] \notin excluded_words
                                              /\ isalpha_c(words[i + 1][1])),
            LAMBDA i : IF i = 0 THEN <<>> ELSE <<words[i + 1]>>))

_find_letter_after_with(words) ==
    LET next_word(i) == IF words[i + 1] \in {<<"a">>, <<"a","n">>, <<"t","h","e">>, <<"l","e","t","t","e","r">>} /\ i + 2 <= Len(words)
                        THEN words[i + 2] ELSE words[i + 1]
    IN  Let(FirstIndex(Len(words), LAMBDA i : /\ words[i] = <<"w","i","t","h">> /\ i + 1 <= Len(words)
                                              /\ IsLetter(next_word(i))),
            LAMBDA i : IF i = 0 THEN <<>> ELSE <<upper(next_word(i))>>)

_find_letter_after_pattern(words, pattern_words) ==
    Let(FirstIndex(Len(words), LAMBDA i : /\ words[i] = pattern_words[1]
                                          /\ i + Len(pattern_words) <= Len(words)
                                          /\ IsLetter(words[i + Len(pattern_words)])),
        LAMBDA i : IF i = 0 THEN <<>> ELSE <<upper(words[i + Len(pattern_words)])>>)

\* Pattern 1: single letter before 'names'
_detect_show_x_names(words) ==
    IF ~InWords(<<"n","a","m","e","s">>, words) \/ Len(words) < 2 THEN <<>>
    ELSE Let(WordIndex(<<"n","a","m","e","s">>, words), LAMBDA names_idx :
             IF names_idx >= 2 /\ IsLetter(words[names_idx - 1])
             THEN <<<<upper(words[names_idx - 1]), TRUE>>>>
             ELSE <<>>)

\* Pattern 2: 'starts with X' variants
_detect_starts_with_pattern(query_lower, words) ==
    Let([k \in 1..Len(_STARTS_WITH_PATTERNS) |->
            IF ~contains(query_lower, _STARTS_WITH_PATTERNS[k]) THEN <<>>
            ELSE Let(_find_letter_after_with(words), LAMBDA letter :
                     IF letter # <<>> THEN letter
                     ELSE _find_letter_after_pattern(words, split(_STARTS_WITH_PATTERNS[k])))],
        LAMBDA tries :
            Let(FirstIndex(Len(tries), LAMBDA k : tries[k] # <<>>),
                LAMBDA k : IF k = 0 THEN <<>> ELSE <<<<tries[k][1], TRUE>>>>))

\* Pattern 3: 'letter X in name'
_detect_letter_in_name(words) ==
    IF ~InWords(<<"l","e","t","t","e","r">>, words) THEN <<>>
    ELSE Let(WordIndex(<<"l","e","t","t","e","r">>, words), LAMBDA letter_idx :
             IF letter_idx + 1 > Len(words) THEN <<>>
             ELSE IF IsLetter(words[letter_idx + 1])
                     /\ \E i \in letter_idx..Len(words) : words[i] \in {<<"n","a","m","e">>, <<"n","a","m","e","s">>}
             THEN <<<<upper(words[letter_idx + 1]), FALSE>>>>
             ELSE <<>>)

\* Pattern 4: 'containing X'
_detect_containing_pattern(words) ==
    IF ~InWords(<<"c","o","n","t","a","i","n","i","n","g">>, words) THEN <<>>
    ELSE Let(WordIndex(<<"c","o","n","t","a","i","n","i","n","g">>, words), LAMBDA idx :
             IF idx + 1 > Len(words) THEN <<>>
             ELSE IF IsLetter(words[idx + 1]) THEN <<<<upper(words[idx + 1]), FALSE>>>>
             ELSE IF words[idx + 1] \notin _ARTICLES
             THEN <<<<_capitalize_name(words[idx + 1]), FALSE>>>>
             ELSE <<>>)

\* Pattern 5: 'name like X'
_detect_name_like_pattern(words) ==
    IF ~InWords(<<"l","i","k","e">>, words) THEN <<>>
    ELSE Let(WordIndex(<<"l","i","k","e">>, words), LAMBDA idx :
             IF idx > 1 /\ (\E i \in 1..(idx - 1) : words[i] = <<"n","a","m","e">>) /\ idx + 1 <= Len(words)
                /\ words[idx + 1] \notin _ARTICLES
             THEN <<<<_capitalize_name(words[idx + 1]), FALSE>>>>
             ELSE <<>>)

\* Pattern 6: 'named X' / 'called X'
_detect_named_called_pattern(query_lower) ==
    LET excluded == { <<"t","h","a","t">>, <<"i","s">>, <<"o","f">>, <<"w","h","i","c","h">>, <<"w","h","o">>, <<"a">>, <<"a","n">>, <<"t","h","e">>,
                      <<"u","s","e","r","s">>, <<"u","s","e","r">>, <<"p","e","o","p","l","e">>, <<"a","l","l">>, <<"m","e">> }
    IN  Let(_extract_word_after(query_lower, {<<"n","a","m","e","d">>, <<"c","a","l","l","e","d">>}, excluded), LAMBDA name :
            IF name # <<>> /\ lower(name[1]) \notin _SORTING_WORDS
            THEN <<<<_capitalize_name(name[1]), FALSE>>>>
            ELSE <<>>)

\* Pattern 7: 'show/find X <filter>'
_detect_show_name_filter(words) ==
    IF Len(words) < 3 \/ words[1] \notin {<<"s","h","o","w">>, <<"f","i","n","d">>} THEN <<>>
    ELSE IF words[2] \notin _FILTER_WORDS /\ isalpha_c(words[2][1]) /\ words[3] \in _FILTER_WORDS
    THEN <<<<_capitalize_name(words[2]), FALSE>>>>
    ELSE <<>>

\* Pattern 8: 'X users'
_detect_name_users_pattern(words) ==
    LET cmd_words == { <<"f","i","n","d">>, <<"s","h","o","w">>, <<"l","i","s","t">>, <<"g","e","t">>, <<"s","e","a","r","c","h">>, <<"d","i","s","p","l","a","y">>, <<"g","i","v","e">>,
                       <<"f","e","t","c","h">>, <<"a","l","l">>, <<"t","h","e">>, <<"f","e","m","a","l","e">>, <<"m","a","l","e">>, <<"o","t","h","e","r">>, SORT_NEWEST,
                       <<"o","l","d","e","s","t">>, <<"f","m","a","l","e">>, <<"f","e","m","a","l">>, <<"f","e","m","a","i","l","s">>, <<"f","e","m","a","i","l">> }
        excluded == { SORT_NEWEST, <<"o","l","d","e","s","t">>, <<"f","e","m","a","l","e">>, <<"m","a","l","e">>, <<"o","t","h","e","r">>,
                      <<"f","m","a","l","e">>, <<"f","e","m","a","l">>, <<"f","e","m","a","i","l","s">>, <<"f","e","m","a","i","l">> }
    IN  IF Len(words) < 2 \/ words[Len(words)] \notin {<<"u","s","e","r","s">>, <<"u","s","e","r">>} THEN <<>>
        ELSE IF words[1] \notin cmd_words /\ isalpha_c(words[1][1]) /\ words[1] \notin excluded
        THEN <<<<_capitalize_name(words[1]), FALSE>>>>
        ELSE <<>>

\* Pattern 9: name at start followed by a filter word
_detect_name_filter_pattern(words, gender) ==
    LET filter_words == { <<"f","e","m","a","l","e">>, <<"m","a","l","e">>, <<"o","t","h","e","r">>, SORT_NEWEST, <<"o","l","d","e","s","t">>, <<"l","a","t","e","s","t">>,
                          <<"r","e","c","e","n","t">>, SORT_LONGEST, SORT_SHORTEST, <<"w","i","t","h">>, <<"w","i","t","h","o","u","t">>, <<"n","o">> }
        excluded_first_words == { <<"f","e","m","a","l","e">>, <<"m","a","l","e">>, <<"o","t","h","e","r">>, <<"f","m","a","l","e">>, <<"f","e","m","a","l">>,
                                  SORT_NEWEST, <<"o","l","d","e","s","t">>, <<"l","a","t","e","s","t">>, <<"r","e","c","e","n","t">>,
                                  SORT_LONGEST, SORT_SHORTEST, <<"a","l","p","h","a","b","e","t","i","c","a","l">>, <<"s","o","r","t","e","d">> }
    IN  IF Len(words) < 2 THEN <<>>
        ELSE IF words[1] \in excluded_first_words THEN <<>>
        ELSE IF words[1] \notin _COMMAND_WORDS /\ isalpha_c(words[1][1])
                /\ (words[2] \in filter_words \/ gender # None)
        THEN <<<<_capitalize_name(words[1]), FALSE>>>>
        ELSE <<>>

\* Pattern 10: 'with X' when a gender is set and no picture filter
_detect_with_name_pattern(query_lower, gender, has_profile_pic) ==
    LET excluded_with == { <<"a">>, <<"a","n">>, <<"t","h","e">>, <<"t","h","a","t">>, <<"i","s">>, <<"o","f">>, <<"o","d","d">>, <<"e","v","e","n">>,
                           <<"p","r","o","f","i","l","e">>, <<"p","i","c">>, <<"p","i","c","t","u","r","e">>, <<"p","h","o","t","o">>, <<"a","v","a","t","a","r">> }
    IN  IF gender = None \/ has_profile_pic # None THEN <<>>
        ELSE Let(_extract_word_after(query_lower, {<<"w","i","t","h">>}, excluded_with), LAMBDA name :
                 IF name # <<>> THEN <<<<_capitalize_name(name[1]), FALSE>>>> ELSE <<>>)

\* returns <<name_substr, starts_with_mode>>, name_substr = NoName when nothing matched
detect_name_search(query_lower, gender, has_profile_pic) ==
    Let(split(query_lower), LAMBDA words :
        Let(<< _detect_show_x_names(words),
               _detect_starts_with_pattern(query_lower, words),
               _detect_letter_in_name(words),
               _detect_containing_pattern(words),
               _detect_name_like_pattern(words),
               _detect_named_called_pattern(query_lower),
               _detect_show_name_filter(words),
               _detect_name_users_pattern(words),
               _detect_name_filter_pattern(words, gender),
               _detect_with_name_pattern(query_lower, gender, has_profile_pic) >>,
            LAMBDA patterns :
                Let(FirstIndex(Len(patterns), LAMBDA k : patterns[k] # <<>>),
                    LAMBDA k : IF k = 0 THEN <<NoName, FALSE>> ELSE patterns[k][1])))

(* ----------------------------- detect_bare_name ------------------------- *)

_is_valid_name_chars(text) ==
    /\ Len(text) > 0
    /\ isalpha_c(text[1])
    /\ \A i \in 1..Len(text) : isalpha_c(text[i]) \/ text[i] \in {"'", " ", "-"}

query_indicators == {
    <<"f","i","n","d">>, <<"s","h","o","w">>, <<"l","i","s","t">>, <<"g","e","t">>, <<"s","e","a","r","c","h">>, <<"d","i","s","p","l","a","y">>, <<"g","i","v","e">>, <<"f","e","t","c","h">>,
    <<"u","s","e","r">>, <<"u","s","e","r","s">>, <<"p","e","o","p","l","e">>, <<"p","e","r","s","o","n">>, <<"a","l","l">>, <<"e","v","e","r","y">>,
    <<"w","i","t","h">>, <<"w","i","t","h","o","u","t">>, <<"w","h","o">>, <<"w","h","o","s","e">>, <<"w","h","e","r","e">>, <<"t","h","a","t">>, <<"w","h","i","c","h">>,
    <<"t","h","e">>, <<"a","n","d">>, <<"o","r">>, <<"n","o","t">>,
    <<"l","o","n","g","e","s","t">>, <<"s","h","o","r","t","e","s","t">>, <<"o","l","d","e","s","t">>, <<"n","e","w","e","s","t">>, <<"f","i","r","s","t">>, <<"l","a","s","t">>,
    <<"n","a","m","e">>, <<"n","a","m","e","d">>, <<"c","a","l","l","e","d">>, <<"u","s","e","r","n","a","m","e">>, <<"p","i","c","t","u","r","e">>, <<"p","h","o","t","o">>, <<"p","r","o","f","i","l","e">>,
    <<"a","l","p","h","a","b","e","t","i","c","a","l">>, <<"a","l","p","h","a","b","e","t","i","c","a","l","l","y">>, <<"s","o","r","t","e","d">>, <<"s","o","r","t">>, <<"o","r","d","e","r">>, <<"o","r","d","e","r","e","d">>,
    <<"a","-","z">>, <<"z","-","a">>, <<"a","s","c","e","n","d","i","n","g">>, <<"d","e","s","c","e","n","d","i","n","g">>,
    <<"f","e","m","a","l","e">>, <<"m","a","l","e">>, <<"o","t","h","e","r">>, <<"n","o","n","-","b","i","n","a","r","y">>, <<"n","o","n","b","i","n","a","r","y">> }

\* detect_bare_name without the test for indicator words: any short text is a name
detect_bare_name_ignoring_indicators(query_lower, query_original) ==
    Let(split(query_lower), LAMBDA words :
        IF Len(query_original) = 1 /\ isalpha(query_original) THEN upper(query_original)
        ELSE IF ~(1 <= Len(words) /\ Len(words) <= 4) THEN NoName
        ELSE IF ~(2 <= Len(query_original) /\ Len(query_original) <= 40) THEN NoName
        ELSE IF ~_is_valid_name_chars(query_original) THEN NoName
        ELSE title(query_original))

\* returns the name, or NoName
detect_bare_name(query_lower, query_original) ==
    Let(split(query_lower), LAMBDA words :
        IF Len(query_original) = 1 /\ isalpha(query_original) THEN upper(query_original)
        ELSE IF \E i \in 1..Len(words) : words[i] \in query_indicators THEN NoName
        ELSE IF ~(1 <= Len(words) /\ Len(words) <= 4) THEN NoName
        ELSE IF ~(2 <= Len(query_original) /\ Len(query_original) <= 40) THEN NoName
        ELSE IF ~_is_valid_name_chars(query_original) THEN NoName
        ELSE title(query_original))

(* ------------------------------ is_complex_query ------------------------ *)

complex_words == {
    <<"w","h","o","s","e">>, <<"r","h","y","m","e">>, <<"l","o","n","g","e","r">>, <<"s","h","o","r","t","e","r">>, <<"e","x","a","c","t","l","y">>, <<"m","o","r","e">>, <<"l","e","s","s">>,
    <<"t","h","r","e","e">>, <<"t","w","o">>, <<"c","o","n","t","a","i","n","s">>, <<"e","n","d","s">>, <<"b","i","r","t","h","d","a","t","e">>,
    <<"b","i","r","t","h","d","a","y">>, <<"a","g","e">>, <<"r","e","g","i","s","t","e","r","e","d">>, <<"p","a","s","s","w","o","r","d">> }

is_complex_query(query_lower) == AnyIn(complex_words, query_lower)

(* ----------------------------- simple_parse_query ----------------------- *)

\* simple_parse_query without its last branch: warnings without a filter are dropped
\* and the query counts as unresolved
simple_parse_query_dropping_warnings(user_query) ==
    Let(<<strip(lower(user_query)), strip(user_query)>>, LAMBDA text :
    Let(<< detect_sorting(text[1]), detect_profile_pic_filter(text[1]),
           detect_name_length_parity(text[1]), detect_gender(text[1]),
           detect_unsupported_patterns(text[1]) >>, LAMBDA found :
    Let(detect_name_search(text[1], found[4][1], found[2]), LAMBDA ns :
    Let(/\ found[4][1] = None /\ ns[1] = NoName /\ found[3] = None
        /\ found[2] = None /\ found[1][1] = None, LAMBDA has_no_filters :
    Let(IF has_no_filters THEN detect_bare_name(text[1], text[2]) ELSE ns[1], LAMBDA name_substr :
    Let(found[5] \o (IF found[4][2] # None THEN <<found[4][2]>> ELSE <<>>), LAMBDA parse_warnings :
        IF has_no_filters /\ name_substr = NoName /\ is_complex_query(text[1]) THEN <<>>
        ELSE IF \/ found[4][1] # None \/ name_substr # NoName \/ found[3] # None
                \/ found[2] # None \/ found[1][1] # None
        THEN << [ gender |-> found[4][1], name_substr |-> name_substr,
                  starts_with_mode |-> ns[2], name_length_parity |-> found[3],
                  has_profile_pic |-> found[2], sort_by |-> found[1][1],
                  sort_order |-> found[1][2], query_understood |-> TRUE,
                  parse_warnings |-> parse_warnings ] >>
        ELSE <<>> ))))))

\* returns <<>> (None: too complex, escalate) or <<FilterSpec>>
\* (variant: the warnings of a query without filter are returned before the test for
\* complex words)
simple_parse_query_warnings_before_complex(user_query) ==
    Let(<<strip(lower(user_query)), strip(user_query)>>, LAMBDA text :
    Let(<< detect_sorting(text[1]), detect_profile_pic_filter(text[1]),
           detect_name_length_parity(text[1]), detect_gender(text[1]),
           detect_unsupported_patterns(text[1]) >>, LAMBDA found :
    Let(detect_name_search(text[1], found[4][1], found[2]), LAMBDA ns :
    Let(/\ found[4][1] = None /\ ns[1] = NoName /\ found[3] = None
        /\ found[2] = None /\ found[1][1] = None, LAMBDA has_no_filters :
    Let(IF has_no_filters THEN detect_bare_name(text[1], text[2]) ELSE ns[1], LAMBDA name_substr :
    Let(found[5] \o (IF found[4][2] # None THEN <<found[4][2]>> ELSE <<>>), LAMBDA parse_warnings :
        IF has_no_filters /\ name_substr = NoName /\ parse_warnings = <<>> THEN <<>>
        ELSE IF \/ found[4][1] # None \/ name_substr # NoName \/ found[3] # None
                \/ found[2] # None \/ found[1][1] # None
        THEN << [ gender |-> found[4][1], name_substr |-> name_substr,
                  starts_with_mode |-> ns[2], name_length_parity |-> found[3],
                  has_profile_pic |-> found[2], sort_by |-> found[1][1],
                  sort_order |-> found[1][2], query_understood |-> TRUE,
                  parse_warnings |-> parse_warnings ] >>
        ELSE IF parse_warnings # <<>>
        THEN << [UserQueryFilters EXCEPT !.query_understood = FALSE,
                                         !.parse_warnings = parse_warnings] >>
        ELSE <<>> ))))))

simple_parse_query(user_query) ==
    Let(<<strip(lower(user_query)), strip(user_query)>>, LAMBDA text :
    Let(<< detect_sorting(text[1]), detect_profile_pic_filter(text[1]),
           detect_name_length_parity(text[1]), detect_gender(text[1]),
           detect_unsupported_patterns(text[1]) >>, LAMBDA found :
    Let(detect_name_search(text[1], found[4][1], found[2]), LAMBDA ns :
    Let(/\ found[4][1] = None /\ ns[1] = NoName /\ found[3] = None
        /\ found[2] = None /\ found[1][1] = None, LAMBDA has_no_filters :
    Let(IF has_no_filters THEN detect_bare_name(text[1], text[2]) ELSE ns[1], LAMBDA name_substr :
    Let(found[5] \o (IF found[4][2] # None THEN <<found[4][2]>> ELSE <<>>), LAMBDA parse_warnings :
        IF has_no_filters /\ name_substr = NoName /\ is_complex_query(text[1]) THEN <<>>
        ELSE IF \/ found[4][1] # None \/ name_substr # NoName \/ found[3] # None
                \/ found[2] # None \/ found[1][1] # None
        THEN << [ gender |-> found[4][1], name_substr |-> name_substr,
                  starts_with_mode |-> ns[2], name_length_parity |-> found[3],
                  has_profile_pic |-> found[2], sort_by |-> found[1][1],
                  sort_order |-> found[1][2], query_understood |-> TRUE,
                  parse_warnings |-> parse_warnings ] >>
        ELSE IF parse_warnings # <<>>
        THEN << [UserQueryFilters EXCEPT !.query_understood = FALSE,
                                         !.parse_warnings = parse_warnings] >>
        ELSE <<>> ))))))
(* --------------------------- SIMPLE_QUERY_PATTERNS ---------------------- *)

Gender(g) == [UserQueryFilters EXCEPT !.gender = g]

SIMPLE_QUERY_PATTERNS ==
    [ k \in { <<"l","i","s","t"," ","a","l","l"," ","f","e","m","a","l","e">>, <<"s","h","o","w"," ","a","l","l"," ","f","e","m","a","l","e">>, <<"a","l","l"," ","f","e","m","a","l","e"," ","u","s","e","r","s">>, <<"f","e","m","a","l","e"," ","u","s","e","r","s">>,
              <<"s","h","o","w"," ","f","e","m","a","l","e">>, <<"a","l","l"," ","f","e","m","a","l","e","s">>, <<"l","i","s","t"," ","f","e","m","a","l","e","s">>,
              <<"l","i","s","t"," ","a","l","l"," ","m","a","l","e">>, <<"s","h","o","w"," ","a","l","l"," ","m","a","l","e">>, <<"a","l","l"," ","m","a","l","e"," ","u","s","e","r","s">>, <<"m","a","l","e"," ","u","s","e","r","s">>,
              <<"s","h","o","w"," ","m","a","l","e">>, <<"a","l","l"," ","m","a","l","e","s">>, <<"l","i","s","t"," ","m","a","l","e","s">>,
              <<"l","i","s","t"," ","a","l","l"," ","o","t","h","e","r">>, <<"s","h","o","w"," ","a","l","l"," ","o","t","h","e","r">>, <<"o","t","h","e","r"," ","u","s","e","r","s">>,
              <<"l","i","s","t"," ","a","l","l"," ","u","s","e","r","s">>, <<"s","h","o","w"," ","a","l","l"," ","u","s","e","r","s">>, <<"a","l","l"," ","u","s","e","r","s">> } |->
        IF k \in { <<"l","i","s","t"," ","a","l","l"," ","f","e","m","a","l","e">>, <<"s","h","o","w"," ","a","l","l"," ","f","e","m","a","l","e">>, <<"a","l","l"," ","f","e","m","a","l","e"," ","u","s","e","r","s">>, <<"f","e","m","a","l","e"," ","u","s","e","r","s">>,
                   <<"s","h","o","w"," ","f","e","m","a","l","e">>, <<"a","l","l"," ","f","e","m","a","l","e","s">>, <<"l","i","s","t"," ","f","e","m","a","l","e","s">> } THEN Gender("Female")
        ELSE IF k \in { <<"l","i","s","t"," ","a","l","l"," ","m","a","l","e">>, <<"s","h","o","w"," ","a","l","l"," ","m","a","l","e">>, <<"a","l","l"," ","m","a","l","e"," ","u","s","e","r","s">>, <<"m","a","l","e"," ","u","s","e","r","s">>,
                        <<"s","h","o","w"," ","m","a","l","e">>, <<"a","l","l"," ","m","a","l","e","s">>, <<"l","i","s","t"," ","m","a","l","e","s">> } THEN Gender("Male")
        ELSE IF k \in { <<"l","i","s","t"," ","a","l","l"," ","o","t","h","e","r">>, <<"s","h","o","w"," ","a","l","l"," ","o","t","h","e","r">>, <<"o","t","h","e","r"," ","u","s","e","r","s">> } THEN Gender("Other")
        ELSE UserQueryFilters ]

(* ------------------------ AI response sanitization ---------------------- *)

\* a decoded JSON value: <<"null">>, <<"bool", b>>, <<"num", n>>, <<"str", text>>,
\* <<"list", items>>, <<"obj", record>>
JNull == <<"null">>
JBool(b) == <<"bool", b>>
JNum(n) == <<"num", n>>
JStr(s) == <<"str", s>>
JList(l) == <<"list", l>>
JObj(r) == <<"obj", r>>
IsStr(v) == v[1] = "str"

\* str.capitalize()
capitalize(s) == [i \in 1..Len(s) |-> IF i = 1 THEN upper_c(s[i]) ELSE lower_c(s[i])]

\* str.strip(chars)
strip_chars(s, chars) ==
    LET Keep(c) == c \notin chars
    IN  SubSeq(s, FirstWhere(s, Keep), LastWhere(s, Keep))

_validate_gender(value) ==
    IF ~IsStr(value) THEN value
    ELSE LET normalized == capitalize(strip(value[2]))
         IN  IF normalized \notin {<<"M","a","l","e">>, <<"F","e","m","a","l","e">>, <<"O","t","h","e","r">>} THEN JNull
             ELSE JStr(normalized)

invalid_values == {
    <<"m","a","l","e">>, <<"f","e","m","a","l","e">>, <<"o","t","h","e","r">>, <<"f","m","a","l","e">>, <<"f","e","m","a","l">>, <<"n","o","n","-","b","i","n","a","r","y">>, <<"n","o","n","b","i","n","a","r","y">>,
    <<"u","s","e","r">>, <<"u","s","e","r","s">>, <<"a","l","l">>, <<"n","u","l","l">>, <<"n","o","n","e">>, <<>>,
    <<"n","e","w","e","s","t">>, <<"o","l","d","e","s","t">>, <<"l","o","n","g","e","s","t">>, <<"s","h","o","r","t","e","s","t">>, <<"a","l","p","h","a","b","e","t","i","c","a","l">>, <<"s","o","r","t","e","d">>,
    <<"r","e","c","e","n","t">>, <<"l","a","t","e","s","t">>, <<"f","i","r","s","t">>, <<"l","a","s","t">>,
    <<"p","r","o","f","i","l","e">>, <<"p","i","c","t","u","r","e">>, <<"p","h","o","t","o">>, <<"a","v","a","t","a","r">>, <<"p","i","c">>,
    <<"w","i","t","h">>, <<"w","i","t","h","o","u","t">>, <<"e","n","d","s">>, <<"o","r","d","e","r">> }

_validate_name_substr(value) ==
    IF ~IsStr(value) THEN value
    ELSE LET cleaned == strip_chars(strip(value[2]), {"'", "\"", "[", "]"})
         IN  IF lower(cleaned) \in invalid_values THEN JNull
             ELSE IF Len(cleaned) > 0 THEN JStr(cleaned) ELSE JNull

_validate_boolean_field(value) ==
    IF value[1] = "bool" THEN value
    ELSE IF IsStr(value) /\ lower(strip(value[2])) \in {<<"t","r","u","e">>, <<"1">>, <<"y","e","s">>} THEN JBool(TRUE)
    ELSE IF IsStr(value) /\ lower(strip(value[2])) \in {<<"f","a","l","s","e">>, <<"0">>, <<"n","o">>} THEN JBool(FALSE)
    ELSE JNull

_validate_sort_by(value) ==
    IF ~IsStr(value) THEN value
    ELSE LET normalized == lower(strip(value[2]))
         IN  IF normalized \notin { <<"n","a","m","e","_","l","e","n","g","t","h">>, <<"u","s","e","r","n","a","m","e","_","l","e","n","g","t","h">>, <<"n","a","m","e">>, <<"u","s","e","r","n","a","m","e">>,
                                    <<"c","r","e","a","t","e","d","_","a","t">> }
             THEN JNull ELSE JStr(normalized)

_validate_sort_order(value) ==
    IF IsStr(value) /\ lower(strip(value[2])) \in {<<"a","s","c">>, <<"d","e","s","c">>}
    THEN JStr(lower(strip(value[2])))
    ELSE JStr(<<"d","e","s","c">>)

_validate_parity(value) ==
    IF ~IsStr(value) THEN value
    ELSE LET normalized == lower(strip(value[2]))
         IN  IF normalized \notin {<<"o","d","d">>, <<"e","v","e","n">>} THEN JNull ELSE JStr(normalized)

\* parsed_dict is a record; only the keys it has are rewritten
_sanitize_ai_response(parsed_dict) ==
    [ k \in DOMAIN parsed_dict |->
        IF k = "gender" THEN _validate_gender(parsed_dict[k])
        ELSE IF k = "name_substr" THEN _validate_name_substr(parsed_dict[k])
        ELSE IF k = "starts_with_mode"
             THEN (IF _validate_boolean_field(parsed_dict[k]) # JNull
                   THEN _validate_boolean_field(parsed_dict[k]) ELSE JBool(FALSE))
        ELSE IF k = "name_length_parity" THEN _validate_parity(parsed_dict[k])
        ELSE IF k = "has_profile_pic" THEN _validate_boolean_field(parsed_dict[k])
        ELSE IF k = "sort_by" THEN _validate_sort_by(parsed_dict[k])
        ELSE IF k = "sort_order" THEN _validate_sort_order(parsed_dict[k])
        ELSE parsed_dict[k] ]

\* the enum texts a validated field can carry, as the model's field values
EnumField(text) ==
    CASE text = <<"M","a","l","e">> -> "Male" [] text = <<"F","e","m","a","l","e">> -> "Female" [] text = <<"O","t","h","e","r">> -> "Other"
      [] text = <<"o","d","d">> -> "odd" [] text = <<"e","v","e","n">> -> "even"
      [] text = <<"n","a","m","e","_","l","e","n","g","t","h">> -> "name_length" [] text = <<"u","s","e","r","n","a","m","e","_","l","e","n","g","t","h">> -> "username_length"
      [] text = <<"n","a","m","e">> -> "name" [] text = <<"u","s","e","r","n","a","m","e">> -> "username"
      [] text = <<"c","r","e","a","t","e","d","_","a","t">> -> "created_at"
      [] text = <<"a","s","c">> -> "asc" [] text = <<"d","e","s","c">> -> "desc"
      [] OTHER -> "?"

\* UserQueryFilters(**d): Optional[str] takes a string or null, Optional[bool] a bool or
\* null, bool a bool, list a list; a key that is absent takes the default, an unknown
\* key is ignored, anything else is a ValidationError.  <<>> stands for the error.
ValidationOk(d) ==
    /\ "gender" \in DOMAIN d => d.gender[1] \in {"str", "null"}
    /\ "name_substr" \in DOMAIN d => d.name_substr[1] \in {"str", "null"}
    /\ "starts_with_mode" \in DOMAIN d => d.starts_with_mode[1] = "bool"
    /\ "name_length_parity" \in DOMAIN d => d.name_length_parity[1] \in {"str", "null"}
    /\ "has_profile_pic" \in DOMAIN d => d.has_profile_pic[1] \in {"bool", "null"}
    /\ "sort_by" \in DOMAIN d => d.sort_by[1] \in {"str", "null"}
    /\ "sort_order" \in DOMAIN d => d.sort_order[1] = "str"
    /\ "query_understood" \in DOMAIN d => d.query_understood[1] = "bool"
    /\ "parse_warnings" \in DOMAIN d => d.parse_warnings[1] = "list"

FromParsedDict(d) ==
    IF ~ValidationOk(d) THEN <<>>
    ELSE LET OptEnum(k) == IF k \in DOMAIN d /\ d[k][1] = "str" THEN EnumField(d[k][2]) ELSE None
         IN << [ gender |-> OptEnum("gender"),
                 name_substr |-> IF "name_substr" \in DOMAIN d /\ d.name_substr[1] = "str"
                                 THEN d.name_substr[2] ELSE NoName,
                 starts_with_mode |-> IF "starts_with_mode" \in DOMAIN d
                                      THEN d.starts_with_mode[2] ELSE FALSE,
                 name_length_parity |-> OptEnum("name_length_parity"),
                 has_profile_pic |-> IF "has_profile_pic" \in DOMAIN d
                                        /\ d.has_profile_pic[1] = "bool"
                                     THEN (IF d.has_profile_pic[2] THEN "True" ELSE "False")
                                     ELSE None,
                 sort_by |-> OptEnum("sort_by"),
                 sort_order |-> IF "sort_order" \in DOMAIN d THEN EnumField(d.sort_order[2])
                                ELSE "desc",
                 query_understood |-> IF "query_understood" \in DOMAIN d
                                      THEN d.query_understood[2] ELSE TRUE,
                 parse_warnings |-> IF "parse_warnings" \in DOMAIN d
                                    THEN d.parse_warnings[2] ELSE <<>> ] >>

\* What the awaited chat_completion call can end with: an exception, or a text whose
\* extracted JSON is json.loads-ed (a decode error, or a JSON value).
\* The try block of parse_query_ai from the response on: <<>> is any caught exception
\* (the caller then returns UserQueryFilters()), else the sanitized FilterSpec.
ParseAIResponse(outcome) ==
    IF outcome.kind # "json" THEN <<>>
    ELSE IF outcome.value[1] # "obj" THEN <<>>
    ELSE FromParsedDict(_sanitize_ai_response(outcome.value[2]))

(* ------------------------------- ai/cache.py ---------------------------- *)

TTL_SECONDS == 86400
SAVE_EVERY == 10
NAMESPACE == <<"q","u","e","r","y",":">>

\* a dict as a function; {} is the empty function
EmptyDict == <<>>
Put(m, k, v) == [x \in DOMAIN m \cup {k} |-> IF x = k THEN v ELSE m[x]]
Without(m, ks) == [x \in DOMAIN m \ ks |-> m[x]]

\* filters.dict() as stored by json.dumps, and UserQueryFilters(**json.loads(text))
dict(f) ==
    << f.gender, f.name_substr, f.starts_with_mode, f.name_length_parity, f.has_profile_pic,
       f.sort_by, f.sort_order, f.query_understood, f.parse_warnings >>

FromDict(d) ==
    [ gender |-> d[1], name_substr |-> d[2], starts_with_mode |-> d[3],
      name_length_parity |-> d[4], has_profile_pic |-> d[5], sort_by |-> d[6],
      sort_order |-> d[7], query_understood |-> d[8], parse_warnings |-> d[9] ]

\* The snapshot file: exists, holds valid JSON, and the decoded object.
NoFile == [exists |-> FALSE, valid |-> FALSE, data |-> EmptyDict]

\* A value of the decoded snapshot that is no dict (a string, a number, a list) is kept
\* by load_cache_from_file as the Python object it is; Raw marks such a value among the
\* UserQueryFilters objects of the in-memory dict.
Raw(v) == [raw |-> v]
IsRaw(x) == DOMAIN x = {"raw"}

\* bool(x) of a cached value: a UserQueryFilters object is true, None, 0, "", [] and {}
\* are false
Truthy(x) ==
    IF ~IsRaw(x) THEN TRUE
    ELSE CASE x.raw[1] = "null" -> FALSE
           [] x.raw[1] = "bool" -> x.raw[2]
           [] x.raw[1] = "num" -> x.raw[2] # 0
           [] x.raw[1] = "obj" -> DOMAIN x.raw[2] # {}
           [] OTHER -> x.raw[2] # <<>>

\* An entry of the snapshot file is the dict of a FilterSpec as save_cache_to_file wrote
\* it (dict(f)), or any other JSON value (tagged as the values of an AI response are).
IsSavedDict(d) == d[1] \notin {"null", "bool", "num", "str", "list", "obj"}

\* io: "ok", "open_error" (open() raises, file untouched) or "write_error"
\* (the file is truncated; json.dump fails part way)
save_cache_to_file(memory, file, io) ==
    IF io = "ok"
    THEN [exists |-> TRUE, valid |-> TRUE,
          data |-> [k \in DOMAIN memory |->
                       IF IsRaw(memory[k]) THEN memory[k].raw ELSE dict(memory[k])]]
    ELSE IF io = "open_error" THEN file
    ELSE [exists |-> TRUE, valid |-> FALSE, data |-> EmptyDict]

\* one value of the decoded snapshot: <<>> when UserQueryFilters(**value) raises (the
\* entry is skipped), else <<the object stored in the dict>>
LoadedEntry(value) ==
    IF IsSavedDict(value) THEN <<FromDict(value)>>
    ELSE IF value[1] = "obj" THEN FromParsedDict(value[2])
    ELSE <<Raw(value)>>

\* io: "ok" or "read_error"; a file that does not decode yields {}
load_cache_from_file(file, io) ==
    IF file.exists /\ file.valid /\ io = "ok"
    THEN [k \in {x \in DOMAIN file.data : LoadedEntry(file.data[x]) # <<>>} |->
             LoadedEntry(file.data[k])[1]]
    ELSE EmptyDict
(* ------------------------------ query universe -------------------------- *)

\* The queries submitted to parse_query_ai: a raw pattern-table hit, a hit of the table
\* on the normalized form, a heuristic hit on the normalized form, two heuristic hits on
\* the raw form that share the normalized form "", and a query for the AI tier.
Queries == { <<"f","e","m","a","l","e"," ","u","s","e","r","s">>, <<"F","i","n","d"," ","f","e","m","a","l","e">>, <<"g","u","y","s">>, <<"a","n">>, <<"m","y">>, <<"w","h","o","s","e">> }

\* The name and warning scenarios of the requirements, resolved through parse_query_ai:
\* two heuristic name searches, a command with a name (no tier before the AI resolves
\* it), a query with a warning and no filter, and one with a warning and a complex word.
ScenQueries == { <<"u","s","e","r","s"," ","s","t","a","r","t","i","n","g"," ","w","i","t","h"," ","J">>, <<"A","d","a","m">>, <<"f","i","n","d"," ","A","d","a","m">>, <<"n","o","t">>, <<"n","a","m","e"," ","e","n","d","s"," ","w","i","t","h"," ","a">> }

\* normalize_query and simple_parse_query tabulated over the universe
Stripped == {strip(x) : x \in Queries \cup ScenQueries}
NormalizeMemo == Let([q \in Stripped |-> normalize_query(q)], LAMBDA f : IF f = <<>> THEN <<>> ELSE f)
normalize_func(q) == NormalizeMemo[q]

Parsed == Stripped \cup {NormalizeMemo[k] : k \in Stripped}
SimpleParseMemo == Let([q \in Parsed |-> simple_parse_query(q)], LAMBDA f : IF f = <<>> THEN <<>> ELSE f)
simple_parse(q) == SimpleParseMemo[q]

\* keys of other applications in the same Redis database
ForeignKeys == {<<"s","e","s","s","i","o","n",":","1">>}

\* outcomes of the awaited chat_completion call
AI_OUTCOMES == <<
    [kind |-> "ReadTimeout"],
    [kind |-> "HTTPError"],
    [kind |-> "JSONDecodeError"],
    [kind |-> "json", value |-> JList(<<>>)],
    [kind |-> "json", value |-> JObj([gender |-> JStr(<<"F","e","m","a","l","e">>), name_substr |-> JNull,
        starts_with_mode |-> JBool(FALSE), name_length_parity |-> JNull,
        has_profile_pic |-> JNull, sort_by |-> JNull, sort_order |-> JStr(<<"d","e","s","c">>)])],
    [kind |-> "json", value |-> JObj([gender |-> JStr(<<"r","o","b","o","t">>), name_substr |-> JStr(<<"A","l">>)])],
    [kind |-> "json", value |-> JObj([gender |-> JStr(<<"F","e","m","a","l","e">>),
        query_understood |-> JBool(FALSE)])] >>

NumTasks == 2
Tasks == 1..NumTasks

(* --------------------------------- state -------------------------------- *)

VARIABLES
    IN_MEMORY_CACHE,     \* cache.py: dict query -> UserQueryFilters
    USE_REDIS,           \* cache.py: set once at import
    redis,               \* the Redis database: key -> [value, ttl], ttl = 0 for no expiry
    CACHE_FILE,          \* query_cache.json
    OLLAMA_CONFIGURED,   \* llm.py: OLLAMA_BASE_URL and OLLAMA_API_KEY are set
    pc,                  \* per parse_query_ai call: "idle", "ai_wait", "ai_got", "done"
    pending_query,       \* per call: the stripped query
    result,              \* per call: <<>> or <<returned UserQueryFilters>>
    tier,                \* per call: the tier that produced the result
    ai_outcome,          \* per call: index into AI_OUTCOMES of the received response, or 0
    prior_at_start,      \* per call: prior when the call started
    watched,             \* the query whose history is recorded
    first_result,        \* <<>> or <<first result returned for the watched query>>
    prior,               \* watched query since the last clear: "none", "ok" (a resolution
                         \*   returned a cached or cacheable result), "failed" (AI failure)
    last,                \* the last step: operation, task, I/O failures, what it touched
    norm_text,           \* a query handed to normalize_query
    norm_results,        \* normalize_query applied to norm_text once, then to its own result
    heur_query,          \* <<>> or <<a query handed to simple_parse_query>>
    heur_results,        \* form ("raw", "normalized") -> simple_parse_query of that form
    ai_reply,            \* <<>> or <<an outcome of chat_completion handed to the sanitizer>>
    ai_filters,          \* <<>> or <<what the try block of parse_query_ai made of ai_reply>>
    overtaken,           \* per call: clear_all_caches ran while the call waited for the AI
    write_cap,           \* up to how many unsaved cache writes are counted (0: not counted)
    unsaved_writes       \* cache_query calls since the snapshot file was last written

vars == << IN_MEMORY_CACHE, USE_REDIS, redis, CACHE_FILE, OLLAMA_CONFIGURED, pc, pending_query,
           result, tier, ai_outcome, prior_at_start, watched, first_result, prior, last,
           norm_text, norm_results, heur_query, heur_results, ai_reply, ai_filters,
           overtaken, write_cap, unsaved_writes >>

pure_calls == <<heur_query, heur_results, ai_reply, ai_filters>>
config == <<USE_REDIS, OLLAMA_CONFIGURED, watched, norm_text, norm_results, pure_calls, write_cap>>
caches == <<IN_MEMORY_CACHE, redis, CACHE_FILE>>

\* What one call did besides its result: whether an exception left it, which tiers'
\* I/O failed inside it, the Redis commands it issued, the tiers it read or wrote.
NoLog == [raised |-> FALSE, failed |-> {}, commands |-> <<>>, accessed |-> {}]
Merge(a, b) ==
    [ raised |-> a.raised \/ b.raised, failed |-> a.failed \cup b.failed,
      commands |-> a.commands \o b.commands, accessed |-> a.accessed \cup b.accessed ]

redis_key(normalized) == NAMESPACE \o normalized

\* io: "ok" or "error" (redis_client.get, json.loads or the constructor raises)
\* returns the Optional result and the memory dict afterwards
\* get_cached_query whose Redis handler returns None instead of falling through to memory
get_cached_query_giving_up(query, memory, rds, use_redis, io) ==
    Let([ normalized |-> normalize_func(query),
          log |-> [ raised |-> FALSE,
                    failed |-> IF use_redis /\ io = "error" THEN {"redis"} ELSE {},
                    commands |-> IF use_redis THEN <<"get">> ELSE <<>>,
                    accessed |-> IF use_redis THEN {"redis", "memory"} ELSE {"memory"} ] ],
        LAMBDA v :
            IF use_redis /\ io = "error"
            THEN [result |-> <<>>, memory |-> memory, log |-> v.log]
            ELSE IF use_redis /\ redis_key(v.normalized) \in DOMAIN rds
            THEN [ result |-> <<FromDict(rds[redis_key(v.normalized)].value)>>,
                   memory |-> Put(memory, query, FromDict(rds[redis_key(v.normalized)].value)),
                   log |-> v.log ]
            ELSE IF query \in DOMAIN memory
            THEN [result |-> <<memory[query]>>, memory |-> memory, log |-> v.log]
            ELSE IF v.normalized \in DOMAIN memory
            THEN [ result |-> <<memory[v.normalized]>>,
                   memory |-> Put(memory, query, memory[v.normalized]), log |-> v.log ]
            ELSE [result |-> <<>>, memory |-> memory, log |-> v.log])

\* get_cached_query whose hit on the normalized key leaves the raw key unwritten
get_cached_query_not_healing(query, memory, rds, use_redis, io) ==
    Let([ normalized |-> normalize_func(query),
          log |-> [ raised |-> FALSE,
                    failed |-> IF use_redis /\ io = "error" THEN {"redis"} ELSE {},
                    commands |-> IF use_redis THEN <<"get">> ELSE <<>>,
                    accessed |-> IF use_redis THEN {"redis", "memory"} ELSE {"memory"} ] ],
        LAMBDA v :
            IF use_redis /\ io = "ok" /\ redis_key(v.normalized) \in DOMAIN rds
            THEN [ result |-> <<FromDict(rds[redis_key(v.normalized)].value)>>,
                   memory |-> Put(memory, query, FromDict(rds[redis_key(v.normalized)].value)),
                   log |-> v.log ]
            ELSE IF query \in DOMAIN memory
            THEN [result |-> <<memory[query]>>, memory |-> memory, log |-> v.log]
            ELSE IF v.normalized \in DOMAIN memory
            THEN [result |-> <<memory[v.normalized]>>, memory |-> memory, log |-> v.log]
            ELSE [result |-> <<>>, memory |-> memory, log |-> v.log])

\* get_cached_query that looks into the in-memory dict before it asks Redis
get_cached_query_memory_first(query, memory, rds, use_redis, io) ==
    Let([ normalized |-> normalize_func(query),
          log |-> [ raised |-> FALSE,
                    failed |-> IF use_redis /\ io = "error" THEN {"redis"} ELSE {},
                    commands |-> IF use_redis THEN <<"get">> ELSE <<>>,
                    accessed |-> IF use_redis THEN {"redis", "memory"} ELSE {"memory"} ] ],
        LAMBDA v :
            IF query \in DOMAIN memory
            THEN [result |-> <<memory[query]>>, memory |-> memory, log |-> v.log]
            ELSE IF v.normalized \in DOMAIN memory
            THEN [ result |-> <<memory[v.normalized]>>,
                   memory |-> Put(memory, query, memory[v.normalized]), log |-> v.log ]
            ELSE IF use_redis /\ io = "ok" /\ redis_key(v.normalized) \in DOMAIN rds
            THEN [ result |-> <<FromDict(rds[redis_key(v.normalized)].value)>>,
                   memory |-> Put(memory, query, FromDict(rds[redis_key(v.normalized)].value)),
                   log |-> v.log ]
            ELSE [result |-> <<>>, memory |-> memory, log |-> v.log])

get_cached_query(query, memory, rds, use_redis, io) ==
    Let([ normalized |-> normalize_func(query),
          log |-> [ raised |-> FALSE,
                    failed |-> IF use_redis /\ io = "error" THEN {"redis"} ELSE {},
                    commands |-> IF use_redis THEN <<"get">> ELSE <<>>,
                    accessed |-> IF use_redis THEN {"redis", "memory"} ELSE {"memory"} ] ],
        LAMBDA v :
            IF use_redis /\ io = "ok" /\ redis_key(v.normalized) \in DOMAIN rds
            THEN [ result |-> <<FromDict(rds[redis_key(v.normalized)].value)>>,
                   memory |-> Put(memory, query, FromDict(rds[redis_key(v.normalized)].value)),
                   log |-> v.log ]
            ELSE IF query \in DOMAIN memory
            THEN [result |-> <<memory[query]>>, memory |-> memory, log |-> v.log]
            ELSE IF v.normalized \in DOMAIN memory
            THEN [ result |-> <<memory[v.normalized]>>,
                   memory |-> Put(memory, query, memory[v.normalized]), log |-> v.log ]
            ELSE [result |-> <<>>, memory |-> memory, log |-> v.log])

\* cache_query that stores in Redis with SET (no time to live) instead of SETEX
cache_query_without_ttl(query, filters, memory, rds, file, use_redis, io_set, io_save) ==
    Let(normalize_func(query), LAMBDA normalized :
    Let(Put(Put(memory, query, filters), normalized, filters), LAMBDA memory2 :
    Let(Cardinality(DOMAIN memory2) % SAVE_EVERY = 0, LAMBDA saving :
        [ redis |-> IF use_redis /\ io_set = "ok"
                    THEN Put(rds, redis_key(normalized), [value |-> dict(filters), ttl |-> 0])
                    ELSE rds,
          memory |-> memory2,
          file |-> IF saving THEN save_cache_to_file(memory2, file, io_save) ELSE file,
          log |-> [ raised |-> FALSE,
                    failed |-> (IF use_redis /\ io_set = "error" THEN {"redis"} ELSE {})
                               \cup (IF saving /\ io_save # "ok" THEN {"file"} ELSE {}),
                    commands |-> IF use_redis THEN <<"set">> ELSE <<>>,
                    accessed |-> {"memory"} \cup (IF use_redis THEN {"redis"} ELSE {})
                                 \cup (IF saving THEN {"file"} ELSE {}) ] ])))

\* cache_query that writes Redis only and leaves the in-memory dict alone
cache_query_redis_only(query, filters, memory, rds, file, use_redis, io_set, io_save) ==
    Let(normalize_func(query), LAMBDA normalized :
        [ redis |-> IF use_redis /\ io_set = "ok"
                    THEN Put(rds, redis_key(normalized),
                             [value |-> dict(filters), ttl |-> TTL_SECONDS])
                    ELSE rds,
          memory |-> memory,
          file |-> file,
          log |-> [ raised |-> FALSE,
                    failed |-> IF use_redis /\ io_set = "error" THEN {"redis"} ELSE {},
                    commands |-> IF use_redis THEN <<"setex">> ELSE <<>>,
                    accessed |-> IF use_redis THEN {"redis"} ELSE {} ] ])

\* io_set: "ok" or "error" (setex raises); io_save as for save_cache_to_file
cache_query(query, filters, memory, rds, file, use_redis, io_set, io_save) ==
    Let(normalize_func(query), LAMBDA normalized :
    Let(Put(Put(memory, query, filters), normalized, filters), LAMBDA memory2 :
    Let(Cardinality(DOMAIN memory2) % SAVE_EVERY = 0, LAMBDA saving :
        [ redis |-> IF use_redis /\ io_set = "ok"
                    THEN Put(rds, redis_key(normalized),
                             [value |-> dict(filters), ttl |-> TTL_SECONDS])
                    ELSE rds,
          memory |-> memory2,
          file |-> IF saving THEN save_cache_to_file(memory2, file, io_save) ELSE file,
          log |-> [ raised |-> FALSE,
                    failed |-> (IF use_redis /\ io_set = "error" THEN {"redis"} ELSE {})
                               \cup (IF saving /\ io_save # "ok" THEN {"file"} ELSE {}),
                    commands |-> IF use_redis THEN <<"setex">> ELSE <<>>,
                    accessed |-> {"memory"} \cup (IF use_redis THEN {"redis"} ELSE {})
                                 \cup (IF saving THEN {"file"} ELSE {}) ] ])))

\* io_info: "ok" or "error" (info / dbsize raises): the redis_* keys are then missing
get_cache_stats(memory, rds, file, use_redis, io_info) ==
    [ stats |-> [ in_memory_size |-> Cardinality(DOMAIN memory),
                  redis_connected |-> use_redis,
                  cache_file_exists |-> file.exists,
                  redis_keys |-> IF use_redis /\ io_info = "ok"
                                 THEN <<Cardinality(DOMAIN rds)>> ELSE <<>> ],
      log |-> [ raised |-> FALSE,
                failed |-> IF use_redis /\ io_info = "error" THEN {"redis"} ELSE {},
                commands |-> IF ~use_redis THEN <<>>
                             ELSE IF io_info = "ok" THEN <<"info", "dbsize">> ELSE <<"info">>,
                accessed |-> {"memory", "file"} \cup (IF use_redis THEN {"redis"} ELSE {}) ] ]

\* clear_all_caches that empties the Redis database with FLUSHDB
clear_all_caches_flushing(memory, rds, file, use_redis, io_redis, io_file) ==
    [ memory |-> EmptyDict,
      redis |-> IF use_redis /\ io_redis = "ok" THEN EmptyDict ELSE rds,
      file |-> IF ~file.exists \/ io_file = "open_error" THEN file
               ELSE IF io_file = "ok" THEN [exists |-> TRUE, valid |-> TRUE, data |-> EmptyDict]
               ELSE [exists |-> TRUE, valid |-> FALSE, data |-> EmptyDict],
      cleared |-> [ in_memory |-> Cardinality(DOMAIN memory),
                    redis |-> IF use_redis /\ io_redis = "ok" THEN Cardinality(DOMAIN rds) ELSE 0,
                    file |-> file.exists /\ io_file = "ok" ],
      log |-> [ raised |-> FALSE,
                failed |-> (IF use_redis /\ io_redis # "ok" THEN {"redis"} ELSE {})
                           \cup (IF file.exists /\ io_file # "ok" THEN {"file"} ELSE {}),
                commands |-> IF use_redis THEN <<"flushdb">> ELSE <<>>,
                accessed |-> {"memory", "file"} \cup (IF use_redis THEN {"redis"} ELSE {}) ] ]

\* io_redis: "ok", "keys_error" or "delete_error"; io_file as for save_cache_to_file
clear_all_caches(memory, rds, file, use_redis, io_redis, io_file) ==
    Let({k \in DOMAIN rds : startswith(k, NAMESPACE)}, LAMBDA keys :
    Let(use_redis /\ io_redis # "keys_error" /\ keys # {}, LAMBDA deleting :
        [ memory |-> EmptyDict,
          redis |-> IF deleting /\ io_redis = "ok" THEN Without(rds, keys) ELSE rds,
          file |-> IF ~file.exists \/ io_file = "open_error" THEN file
                   ELSE IF io_file = "ok" THEN [exists |-> TRUE, valid |-> TRUE, data |-> EmptyDict]
                   ELSE [exists |-> TRUE, valid |-> FALSE, data |-> EmptyDict],
          cleared |-> [ in_memory |-> Cardinality(DOMAIN memory),
                        redis |-> IF deleting THEN Cardinality(keys) ELSE 0,
                        file |-> file.exists /\ io_file = "ok" ],
          log |-> [ raised |-> FALSE,
                    failed |-> (IF use_redis /\ (io_redis = "keys_error"
                                                 \/ (deleting /\ io_redis = "delete_error"))
                                THEN {"redis"} ELSE {})
                               \cup (IF file.exists /\ io_file # "ok" THEN {"file"} ELSE {}),
                    commands |-> IF ~use_redis THEN <<>>
                                 ELSE IF deleting THEN <<"keys", "delete">> ELSE <<"keys">>,
                    accessed |-> {"memory", "file"} \cup (IF use_redis THEN {"redis"} ELSE {}) ] ]))

(* ---------------------------- parse_query_ai ---------------------------- *)

\* the return of parse_query_ai after cache_query(q, r): tier 2 and tier 3 results
_cached_return(t, r, c, log) ==
    [ kind |-> "return", tier |-> t, result |-> <<r>>,
      memory |-> c.memory, redis |-> c.redis, file |-> c.file, log |-> Merge(log, c.log) ]

\* parse_query_ai that tries the keyword heuristics before the pattern table
parse_query_ai_heuristics_first(query, memory, rds, file, use_redis, configured, io) ==
    Let(strip(query), LAMBDA q :
    Let([ query_lower |-> lower(q), normalized_query |-> normalize_func(q),
          cached |-> get_cached_query(q, memory, rds, use_redis, io.get) ], LAMBDA v :
    Let(IF v.cached.result # <<>> /\ Truthy(v.cached.result[1]) THEN <<"cache", v.cached.result>>
        ELSE IF simple_parse(v.normalized_query) # <<>>
        THEN <<"simple_normalized", simple_parse(v.normalized_query)>>
        ELSE IF v.normalized_query # q /\ simple_parse(q) # <<>>
        THEN <<"simple_raw", simple_parse(q)>>
        ELSE IF v.query_lower \in DOMAIN SIMPLE_QUERY_PATTERNS
        THEN <<"pattern_raw", <<SIMPLE_QUERY_PATTERNS[v.query_lower]>> >>
        ELSE IF v.normalized_query \in DOMAIN SIMPLE_QUERY_PATTERNS
        THEN <<"pattern_normalized", <<SIMPLE_QUERY_PATTERNS[v.normalized_query]>> >>
        ELSE IF ~configured THEN <<"ai_failed", <<UserQueryFilters>> >>
        ELSE <<"ai", <<>> >>, LAMBDA found :
        IF found[1] \in {"cache", "ai_failed", "ai"}
        THEN [ kind |-> IF found[1] = "ai" THEN "await" ELSE "return",
               tier |-> found[1], result |-> found[2],
               memory |-> v.cached.memory, redis |-> rds, file |-> file, log |-> v.cached.log ]
        ELSE _cached_return(found[1], found[2][1],
                            cache_query(q, found[2][1], v.cached.memory, rds, file, use_redis,
                                        io.set, io.save),
                            v.cached.log))))

\* parse_query_ai up to its return or to the await of chat_completion.
\* io = [get, set, save]; kind "await" means the AI request has been sent.
parse_query_ai(query, memory, rds, file, use_redis, configured, io) ==
    Let(strip(query), LAMBDA q :
    Let([ query_lower |-> lower(q), normalized_query |-> normalize_func(q),
          cached |-> get_cached_query(q, memory, rds, use_redis, io.get) ], LAMBDA v :
    Let(IF v.cached.result # <<>> /\ Truthy(v.cached.result[1]) THEN <<"cache", v.cached.result>>
        ELSE IF v.query_lower \in DOMAIN SIMPLE_QUERY_PATTERNS
        THEN <<"pattern_raw", <<SIMPLE_QUERY_PATTERNS[v.query_lower]>> >>
        ELSE IF v.normalized_query \in DOMAIN SIMPLE_QUERY_PATTERNS
        THEN <<"pattern_normalized", <<SIMPLE_QUERY_PATTERNS[v.normalized_query]>> >>
        ELSE IF simple_parse(v.normalized_query) # <<>>
        THEN <<"simple_normalized", simple_parse(v.normalized_query)>>
        ELSE IF v.normalized_query # q /\ simple_parse(q) # <<>>
        THEN <<"simple_raw", simple_parse(q)>>
        ELSE IF ~configured THEN <<"ai_failed", <<UserQueryFilters>> >>
        ELSE <<"ai", <<>> >>, LAMBDA found :
        IF found[1] \in {"cache", "ai_failed", "ai"}
        THEN [ kind |-> IF found[1] = "ai" THEN "await" ELSE "return",
               tier |-> found[1], result |-> found[2],
               memory |-> v.cached.memory, redis |-> rds, file |-> file, log |-> v.cached.log ]
        ELSE _cached_return(found[1], found[2][1],
                            cache_query(q, found[2][1], v.cached.memory, rds, file, use_redis,
                                        io.set, io.save),
                            v.cached.log))))

\* parse_query_ai without its last handler (except Exception): only the timeout, the
\* HTTP error and the JSON decoding error are caught
parse_query_ai_resume_narrow_except(query, outcome, memory, rds, file, use_redis, io) ==
    Let(ParseAIResponse(outcome), LAMBDA parsed :
        IF parsed = <<>>
        THEN [ kind |-> "return", tier |-> "ai_failed", result |-> <<UserQueryFilters>>,
               memory |-> memory, redis |-> rds, file |-> file,
               log |-> [NoLog EXCEPT !.raised = outcome.kind = "json"] ]
        ELSE _cached_return("ai", parsed[1],
                            cache_query(query, parsed[1], memory, rds, file, use_redis,
                                        io.set, io.save),
                            NoLog))

\* parse_query_ai that caches the default filters it returns when the AI call fails
parse_query_ai_resume_caching_failure(query, outcome, memory, rds, file, use_redis, io) ==
    Let(ParseAIResponse(outcome), LAMBDA parsed :
        _cached_return(IF parsed = <<>> THEN "ai_failed" ELSE "ai",
                       IF parsed = <<>> THEN UserQueryFilters ELSE parsed[1],
                       cache_query(query, IF parsed = <<>> THEN UserQueryFilters ELSE parsed[1],
                                   memory, rds, file, use_redis, io.set, io.save),
                       NoLog))

\* parse_query_ai from the return of chat_completion to its own return
parse_query_ai_resume(query, outcome, memory, rds, file, use_redis, io) ==
    Let(ParseAIResponse(outcome), LAMBDA parsed :
        IF parsed = <<>>
        THEN [ kind |-> "return", tier |-> "ai_failed", result |-> <<UserQueryFilters>>,
               memory |-> memory, redis |-> rds, file |-> file, log |-> NoLog ]
        ELSE _cached_return("ai", parsed[1],
                            cache_query(query, parsed[1], memory, rds, file, use_redis,
                                        io.set, io.save),
                            NoLog))

(* -------------------------------- actions ------------------------------- *)

NoWatch == <<"-">>

RedisIO == IF USE_REDIS THEN {"ok", "error"} ELSE {"ok"}
FileIO == {"ok", "open_error", "write_error"}
IOs == [get : RedisIO, set : RedisIO, save : FileIO]
NoFailure == [get |-> "ok", set |-> "ok", save |-> "ok"]

Event(op, t, log) ==
    [ op |-> op, task |-> t, raised |-> log.raised, failed |-> log.failed,
      commands |-> log.commands, accessed |-> log.accessed ]

\* the record of a call that has returned is dropped at the next step
Settle(f, d) == [u \in Tasks |-> IF pc[u] = "done" THEN d ELSE f[u]]

SettleAll ==
    /\ pc' = Settle(pc, "idle")
    /\ pending_query' = Settle(pending_query, <<>>)
    /\ result' = Settle(result, <<>>)
    /\ tier' = Settle(tier, "none")
    /\ prior_at_start' = Settle(prior_at_start, "none")
    /\ ai_outcome' = Settle(ai_outcome, 0)

\* the count of cache_query calls since the last write of the snapshot file, after a
\* step that called cache_query (wrote) or wrote the file (flushed)
Counted(wrote, flushed) ==
    IF flushed THEN 0
    ELSE IF wrote /\ unsaved_writes < write_cap THEN unsaved_writes + 1
    ELSE unsaved_writes

\* r, the outcome of a step of parse_query_ai, called cache_query / wrote the file
Wrote(r) == r.kind = "return" /\ r.tier \notin {"cache", "ai_failed"}
Flushed(r) == "file" \in r.log.accessed /\ "file" \notin r.log.failed

\* the history of the watched query when a call for q returns r through tier tr
Returned(q, tr, r) ==
    /\ first_result' = IF q = watched /\ first_result = <<>> THEN r ELSE first_result
    /\ prior' = IF q # watched THEN prior
                ELSE IF tr # "ai_failed" THEN "ok"
                ELSE IF prior = "none" THEN "failed" ELSE prior

\* no call of simple_parse_query or of the sanitizer on its own is under way
NoPureCalls ==
    /\ heur_query = <<>>
    /\ heur_results = EmptyDict
    /\ ai_reply = <<>>
    /\ ai_filters = <<>>

\* the process after import of ai.cache, with the deployment's configuration
InitFrom(redis_options, configured_options, watch_options, cap, files) ==
    /\ USE_REDIS \in redis_options
    /\ OLLAMA_CONFIGURED \in configured_options
    /\ watched \in watch_options
    /\ CACHE_FILE \in files
    /\ IN_MEMORY_CACHE = load_cache_from_file(CACHE_FILE, "ok")
    /\ redis = [k \in ForeignKeys |-> [value |-> <<>>, ttl |-> 0]]
    /\ pc = [t \in Tasks |-> "idle"]
    /\ pending_query = [t \in Tasks |-> <<>>]
    /\ result = [t \in Tasks |-> <<>>]
    /\ tier = [t \in Tasks |-> "none"]
    /\ ai_outcome = [t \in Tasks |-> 0]
    /\ prior_at_start = [t \in Tasks |-> "none"]
    /\ first_result = <<>>
    /\ prior = "none"
    /\ last = Event("init", 0, NoLog)
    /\ norm_text = <<>>
    /\ norm_results = <<>>
    /\ NoPureCalls
    /\ overtaken = [t \in Tasks |-> FALSE]
    /\ write_cap = cap
    /\ unsaved_writes = 0

InitWith(redis_options, configured_options, watch_options) ==
    InitFrom(redis_options, configured_options, watch_options, 0, {NoFile})

\* a caller awaits parse_query_ai(q): runs to the return or to the await
Begin(t, q, io) ==
    /\ pc[t] \in {"idle", "done"}
    /\ \E r \in {parse_query_ai(q, IN_MEMORY_CACHE, redis, CACHE_FILE, USE_REDIS,
                                 OLLAMA_CONFIGURED, io)} :
           /\ IN_MEMORY_CACHE' = r.memory
           /\ redis' = r.redis
           /\ CACHE_FILE' = r.file
           /\ pc' = [Settle(pc, "idle") EXCEPT ![t] = IF r.kind = "await" THEN "ai_wait" ELSE "done"]
           /\ pending_query' = [Settle(pending_query, <<>>) EXCEPT ![t] = strip(q)]
           /\ result' = [Settle(result, <<>>) EXCEPT ![t] = IF r.log.raised THEN <<>> ELSE r.result]
           /\ tier' = [Settle(tier, "none") EXCEPT ![t] = r.tier]
           /\ ai_outcome' = [Settle(ai_outcome, 0) EXCEPT ![t] = 0]
           /\ prior_at_start' = [Settle(prior_at_start, "none") EXCEPT ![t] =
                                   IF strip(q) = watched THEN prior ELSE "none"]
           /\ IF r.kind = "return" THEN Returned(strip(q), r.tier, r.result)
              ELSE UNCHANGED <<first_result, prior>>
           /\ last' = Event("begin", t, r.log)
           /\ unsaved_writes' = Counted(Wrote(r), Flushed(r))
    /\ overtaken' = [Settle(overtaken, FALSE) EXCEPT ![t] = FALSE]
    /\ UNCHANGED config

\* a chat_completion that records the in-flight request in the in-memory cache
AIResponse_touching_cache(t, o) ==
    /\ pc[t] = "ai_wait"
    /\ pc' = [Settle(pc, "idle") EXCEPT ![t] = "ai_got"]
    /\ ai_outcome' = [Settle(ai_outcome, 0) EXCEPT ![t] = o]
    /\ pending_query' = Settle(pending_query, <<>>)
    /\ result' = Settle(result, <<>>)
    /\ tier' = Settle(tier, "none")
    /\ prior_at_start' = Settle(prior_at_start, "none")
    /\ IN_MEMORY_CACHE' = Put(IN_MEMORY_CACHE, pending_query[t], UserQueryFilters)
    /\ last' = Event("chat_completion", t, [NoLog EXCEPT !.accessed = {"memory"}])
    /\ overtaken' = Settle(overtaken, FALSE)
    /\ UNCHANGED <<redis, CACHE_FILE, config, first_result, prior, unsaved_writes>>

\* chat_completion finishes: the response, a timeout or an HTTP error arrives
AIResponse(t, o) ==
    /\ pc[t] = "ai_wait"
    /\ pc' = [Settle(pc, "idle") EXCEPT ![t] = "ai_got"]
    /\ ai_outcome' = [Settle(ai_outcome, 0) EXCEPT ![t] = o]
    /\ pending_query' = Settle(pending_query, <<>>)
    /\ result' = Settle(result, <<>>)
    /\ tier' = Settle(tier, "none")
    /\ prior_at_start' = Settle(prior_at_start, "none")
    /\ last' = Event("chat_completion", t, NoLog)
    /\ overtaken' = Settle(overtaken, FALSE)
    /\ UNCHANGED <<caches, config, first_result, prior, unsaved_writes>>

\* the event loop resumes parse_query_ai after the await
Resume(t, io) ==
    /\ pc[t] = "ai_got"
    /\ \E r \in {parse_query_ai_resume(pending_query[t], AI_OUTCOMES[ai_outcome[t]],
                                        IN_MEMORY_CACHE, redis, CACHE_FILE, USE_REDIS, io)} :
           /\ IN_MEMORY_CACHE' = r.memory
           /\ redis' = r.redis
           /\ CACHE_FILE' = r.file
           /\ pc' = [Settle(pc, "idle") EXCEPT ![t] = "done"]
           /\ result' = [Settle(result, <<>>) EXCEPT ![t] = IF r.log.raised THEN <<>> ELSE r.result]
           /\ tier' = [Settle(tier, "none") EXCEPT ![t] = r.tier]
           /\ pending_query' = Settle(pending_query, <<>>)
           /\ prior_at_start' = Settle(prior_at_start, "none")
           /\ Returned(pending_query[t], r.tier, r.result)
           /\ last' = Event("resume", t, r.log)
           /\ unsaved_writes' = Counted(Wrote(r), Flushed(r))
    /\ ai_outcome' = Settle(ai_outcome, 0)
    /\ overtaken' = Settle(overtaken, FALSE)
    /\ UNCHANGED config

\* a cancellation that arrives between the two writes of cache_query (as if the
\* in-memory writes could be interrupted)
Cancel_between_writes(t) ==
    /\ pc[t] \in {"ai_wait", "ai_got"}
    /\ pc' = [Settle(pc, "idle") EXCEPT ![t] = "done"]
    /\ tier' = [Settle(tier, "none") EXCEPT ![t] = "cancelled"]
    /\ result' = [Settle(result, <<>>) EXCEPT ![t] = <<>>]
    /\ pending_query' = Settle(pending_query, <<>>)
    /\ prior_at_start' = Settle(prior_at_start, "none")
    /\ ai_outcome' = Settle(ai_outcome, 0)
    /\ IN_MEMORY_CACHE' = Put(IN_MEMORY_CACHE, pending_query[t], UserQueryFilters)
    /\ last' = Event("cancel", t, [NoLog EXCEPT !.raised = TRUE, !.accessed = {"memory"}])
    /\ overtaken' = Settle(overtaken, FALSE)
    /\ UNCHANGED <<redis, CACHE_FILE, config, first_result, prior, unsaved_writes>>

\* The caller's task is cancelled while parse_query_ai is suspended at the await of
\* chat_completion: CancelledError is thrown there, no handler of parse_query_ai
\* catches it (it is no Exception), and the call ends without reaching cache_query.
Cancel(t) ==
    /\ pc[t] \in {"ai_wait", "ai_got"}
    /\ pc' = [Settle(pc, "idle") EXCEPT ![t] = "done"]
    /\ tier' = [Settle(tier, "none") EXCEPT ![t] = "cancelled"]
    /\ result' = [Settle(result, <<>>) EXCEPT ![t] = <<>>]
    /\ pending_query' = Settle(pending_query, <<>>)
    /\ prior_at_start' = Settle(prior_at_start, "none")
    /\ ai_outcome' = Settle(ai_outcome, 0)
    /\ last' = Event("cancel", t, [NoLog EXCEPT !.raised = TRUE])
    /\ overtaken' = Settle(overtaken, FALSE)
    /\ UNCHANGED <<caches, config, first_result, prior, unsaved_writes>>

ClearAll(io_redis, io_file) ==
    /\ \E r \in {clear_all_caches(IN_MEMORY_CACHE, redis, CACHE_FILE, USE_REDIS, io_redis, io_file)} :
           /\ IN_MEMORY_CACHE' = r.memory
           /\ redis' = r.redis
           /\ CACHE_FILE' = r.file
           /\ last' = Event("clear", 0, r.log)
           /\ unsaved_writes' = IF "file" \in r.log.failed THEN unsaved_writes ELSE 0
    /\ prior' = "none"
    /\ SettleAll
    /\ overtaken' = [u \in Tasks |-> pc[u] \in {"ai_wait", "ai_got"}]
    /\ UNCHANGED <<config, first_result>>

Stats(io_info) ==
    /\ last' = Event("stats", 0,
                     get_cache_stats(IN_MEMORY_CACHE, redis, CACHE_FILE, USE_REDIS, io_info).log)
    /\ SettleAll
    /\ overtaken' = Settle(overtaken, FALSE)
    /\ UNCHANGED <<caches, config, first_result, prior, unsaved_writes>>

\* Redis drops a key whose time to live has run out
Expire(k) ==
    /\ k \in DOMAIN redis
    /\ redis[k].ttl > 0
    /\ redis' = Without(redis, {k})
    /\ last' = Event("expire", 0, NoLog)
    /\ SettleAll
    /\ overtaken' = Settle(overtaken, FALSE)
    /\ UNCHANGED <<IN_MEMORY_CACHE, CACHE_FILE, config, first_result, prior, unsaved_writes>>

\* a caller stores filters f for query q with cache_query
CacheQuery(q, f, io) ==
    /\ \E r \in {cache_query(q, f, IN_MEMORY_CACHE, redis, CACHE_FILE, USE_REDIS,
                              io.set, io.save)} :
           /\ IN_MEMORY_CACHE' = r.memory
           /\ redis' = r.redis
           /\ CACHE_FILE' = r.file
           /\ last' = Event("put", 0, r.log)
           /\ unsaved_writes' = Counted(TRUE, Flushed(r))
    /\ SettleAll
    /\ overtaken' = Settle(overtaken, FALSE)
    /\ UNCHANGED <<config, first_result, prior>>

\* (variant: cleanup_caches is not registered, the snapshot is left as it was)
Restart_without_cleanup(io_save, io_load) ==
    \E saved \in {CACHE_FILE} :
        /\ CACHE_FILE' = saved
        /\ IN_MEMORY_CACHE' = load_cache_from_file(saved, io_load)
        /\ pc' = [t \in Tasks |-> "idle"]
        /\ pending_query' = [t \in Tasks |-> <<>>]
        /\ result' = [t \in Tasks |-> <<>>]
        /\ tier' = [t \in Tasks |-> "none"]
        /\ ai_outcome' = [t \in Tasks |-> 0]
        /\ prior_at_start' = [t \in Tasks |-> "none"]
        /\ overtaken' = [t \in Tasks |-> FALSE]
        /\ unsaved_writes' = 0
        /\ prior' = "none"
        /\ last' = Event("restart", 0,
                         [NoLog EXCEPT !.accessed = {"memory", "file"},
                                       !.failed = IF io_save # "ok"
                                                     \/ (saved.exists /\ (io_load # "ok" \/ ~saved.valid))
                                                  THEN {"file"} ELSE {}])
        /\ UNCHANGED <<redis, config, first_result>>

\* The process exits (atexit runs cleanup_caches) and a new one imports ai.cache;
\* calls in flight end with the old process.
Restart(io_save, io_load) ==
    \E saved \in {save_cache_to_file(IN_MEMORY_CACHE, CACHE_FILE, io_save)} :
        /\ CACHE_FILE' = saved
        /\ IN_MEMORY_CACHE' = load_cache_from_file(saved, io_load)
        /\ pc' = [t \in Tasks |-> "idle"]
        /\ pending_query' = [t \in Tasks |-> <<>>]
        /\ result' = [t \in Tasks |-> <<>>]
        /\ tier' = [t \in Tasks |-> "none"]
        /\ ai_outcome' = [t \in Tasks |-> 0]
        /\ prior_at_start' = [t \in Tasks |-> "none"]
        /\ overtaken' = [t \in Tasks |-> FALSE]
        /\ unsaved_writes' = 0
        /\ prior' = "none"
        /\ last' = Event("restart", 0,
                         [NoLog EXCEPT !.accessed = {"memory", "file"},
                                       !.failed = IF io_save # "ok"
                                                     \/ (saved.exists /\ (io_load # "ok" \/ ~saved.valid))
                                                  THEN {"file"} ELSE {}])
        /\ UNCHANGED <<redis, config, first_result>>

RedisErrors == {"ok", "keys_error", "delete_error"}
Outcomes == 1..Len(AI_OUTCOMES)

\* One caller at a time, every I/O outcome, process restarts.
MainQueries == {<<"a","n">>, <<"w","h","o","s","e">>}

Init == InitWith(BOOLEAN, BOOLEAN, {NoWatch})

Next ==
    \/ \E q \in MainQueries, io \in IOs : Begin(1, q, io)
    \/ \E o \in Outcomes : AIResponse(1, o)
    \/ \E io \in IOs : Resume(1, io)
    \/ \E r \in RedisErrors, f \in FileIO : ClearAll(r, f)
    \/ \E i \in {"ok", "error"} : Stats(i)
    \/ \E k \in DOMAIN redis : Expire(k)
    \/ \E s \in FileIO, l \in {"ok", "read_error"} : Restart(s, l)

Spec == Init /\ [][Next]_vars

\* One caller, every tier of the resolution order, failing Redis writes.
InitTiers == InitWith(BOOLEAN, {TRUE}, {NoWatch})

TierIOs == [get : {"ok"}, set : RedisIO, save : {"ok"}]

NextTiers ==
    \/ \E q \in Queries, io \in TierIOs : Begin(1, q, io)
    \/ \E o \in {1, 5} : AIResponse(1, o)
    \/ \E io \in TierIOs : Resume(1, io)
    \/ ClearAll("ok", "ok")
    \/ \E k \in DOMAIN redis : Expire(k)

SpecTiers == InitTiers /\ [][NextTiers]_vars

\* One caller, the history of one watched query across cache operations.
HistQueries == {<<"a","n">>, <<"m","y">>, <<"w","h","o","s","e">>}

InitHist == InitWith(BOOLEAN, BOOLEAN, HistQueries)

NextHist ==
    \/ \E q \in HistQueries, io \in IOs : Begin(1, q, io)
    \/ \E o \in {1, 5, 6} : AIResponse(1, o)
    \/ \E io \in IOs : Resume(1, io)
    \/ \E r \in RedisErrors : ClearAll(r, "ok")
    \/ \E k \in DOMAIN redis : Expire(k)

SpecHist == InitHist /\ [][NextHist]_vars

\* Concurrent callers on the event loop.
ConcQueries == {<<"w","h","o","s","e">>}

InitConc == InitWith(BOOLEAN, {TRUE}, {NoWatch})

NextConc ==
    \/ \E t \in Tasks, q \in ConcQueries : Begin(t, q, NoFailure)
    \/ \E t \in Tasks, o \in {1, 5, 6} : AIResponse(t, o)
    \/ \E t \in Tasks : Resume(t, NoFailure)
    \/ \E t \in Tasks : Cancel(t)
    \/ ClearAll("ok", "ok")
    \/ \E k \in DOMAIN redis : Expire(k)

SpecConc == InitConc /\ [][NextConc]_vars

\* One caller, the name and warning scenarios, every kind of AI response.
InitScen == InitWith(BOOLEAN, BOOLEAN, {NoWatch})

NextScen ==
    \/ \E q \in ScenQueries : Begin(1, q, NoFailure)
    \/ \E o \in {1, 6, 7} : AIResponse(1, o)
    \/ Resume(1, NoFailure)
    \/ ClearAll("ok", "ok")

SpecScen == InitScen /\ [][NextScen]_vars

\* normalize_query on its own: queries of up to MaxWords words, normalized twice.
MaxWords == 3
NormWords == {<<"p","l","e","a","s","e">>, <<"f","i","n","d">>, <<"u","s","e","r","s">>, <<"g","u","y","s">>, <<"m","e">>}
NormInputs == {join(ws) : ws \in UNION {[1..n -> NormWords] : n \in 1..MaxWords}}

InitNorm ==
    /\ USE_REDIS = FALSE
    /\ OLLAMA_CONFIGURED = FALSE
    /\ watched = NoWatch
    /\ CACHE_FILE = NoFile
    /\ IN_MEMORY_CACHE = EmptyDict
    /\ redis = EmptyDict
    /\ pc = [t \in Tasks |-> "idle"]
    /\ pending_query = [t \in Tasks |-> <<>>]
    /\ result = [t \in Tasks |-> <<>>]
    /\ tier = [t \in Tasks |-> "none"]
    /\ ai_outcome = [t \in Tasks |-> 0]
    /\ prior_at_start = [t \in Tasks |-> "none"]
    /\ first_result = <<>>
    /\ prior = "none"
    /\ last = Event("init", 0, NoLog)
    /\ norm_text \in NormInputs
    /\ norm_results = <<>>
    /\ NoPureCalls
    /\ overtaken = [t \in Tasks |-> FALSE]
    /\ write_cap = 0
    /\ unsaved_writes = 0

Normalize ==
    /\ Len(norm_results) < 2
    /\ norm_results' = Append(norm_results,
                              normalize_query(IF norm_results = <<>> THEN norm_text
                                              ELSE norm_results[Len(norm_results)]))
    /\ UNCHANGED <<caches, USE_REDIS, OLLAMA_CONFIGURED, watched, pc, pending_query, result, tier,
                   ai_outcome, prior_at_start, first_result, prior, last, norm_text,
                   pure_calls, overtaken, write_cap, unsaved_writes>>

SpecNorm == InitNorm /\ [][Normalize]_vars


\* ---- writes to the cache and the snapshot file ----
MaxUnsaved == 11
PutQueries == {<<"f","e","m","a","l","e"," ","u","s","e","r","s">>, <<"F","i","n","d"," ","f","e","m","a","l","e">>, <<"g","u","y","s">>, <<"A","d","a","m">>, <<"a","n">>}

InitPut == InitFrom(BOOLEAN, {TRUE}, {NoWatch}, MaxUnsaved, {NoFile})

NextPut ==
    \/ \E q \in PutQueries, s \in FileIO :
          CacheQuery(q, simple_parse_query(q)[1], [NoFailure EXCEPT !.save = s])
    \/ ClearAll("ok", "ok")
    \/ \E s \in FileIO : Restart(s, "ok")

SpecPut == InitPut /\ [][NextPut]_vars

\* ---- a process that starts on a snapshot file it did not write ----
SnapKeys == {<<"a","n">>, <<>>}
SnapValues ==
    { JObj([gender |-> JStr(<<"F","e","m","a","l","e">>)]), JObj([gender |-> JNum(1)]),
      JStr(<<"x">>), JNum(0), JList(<<JNum(1)>>) }
SnapshotFiles ==
    {NoFile, [exists |-> TRUE, valid |-> FALSE, data |-> EmptyDict]}
    \cup {[exists |-> TRUE, valid |-> TRUE, data |-> d] :
             d \in UNION {[ks -> SnapValues] : ks \in SUBSET SnapKeys}}

InitSnap == InitFrom(BOOLEAN, {TRUE}, {NoWatch}, 0, SnapshotFiles)

NextSnap ==
    \/ \E q \in MainQueries, g \in RedisIO : Begin(1, q, [NoFailure EXCEPT !.get = g])
    \/ \E o \in {1, 5} : AIResponse(1, o)
    \/ Resume(1, NoFailure)
    \/ ClearAll("ok", "ok")
    \/ Restart("ok", "ok")

SpecSnap == InitSnap /\ [][NextSnap]_vars

(* ------------- simple_parse_query and the sanitizer on their own --------- *)

\* Queries handed to simple_parse_query: the scenarios of the requirements, and
\* every query of up to MaxParseWords words of ParseWords.
MaxParseWords == 2
ParseWords == {<<"n","a","m","e","d">>, <<"f","i","n","d">>, <<"o","t","h","e","r">>, <<"f","e","m","a","l","e">>, <<"m","a","l","e">>, <<"u","s","e","r","s">>, <<"o","r">>, <<"n","o","t">>}
ScenarioQueries ==
    { <<"f","e","m","a","l","e"," ","u","s","e","r","s">>, <<"m","a","l","e"," ","u","s","e","r","s">>, <<"o","t","h","e","r"," ","g","e","n","d","e","r"," ","u","s","e","r","s">>, <<"n","a","m","e","d"," ","M","a","r","y">>,
      <<"u","s","e","r","s"," ","s","t","a","r","t","i","n","g"," ","w","i","t","h"," ","J">>, <<"A","d","a","m">>, <<"f","i","n","d"," ","A","d","a","m">>, <<"m","a","l","e"," ","o","r"," ","f","e","m","a","l","e"," ","u","s","e","r","s">>,
      <<"n","a","m","e"," ","e","n","d","s"," ","w","i","t","h"," ","a">>, <<"o","t","h","e","r"," ","f","e","m","a","l","e"," ","u","s","e","r","s">>, <<"o","t","h","e","r"," ","g","e","n","d","e","r"," ","f","e","m","a","l","e">> }
ParseInputs ==
    ScenarioQueries
    \cup {join(ws) : ws \in UNION {[1..n -> ParseWords] : n \in 1..MaxParseWords}}

\* Responses of the model handed to the sanitizer: a JSON object whose fields hold
\* valid values, invalid strings and values of another JSON type.
ReplyGenders == {JNull, JStr(<<"F","e","m","a","l","e">>), JStr(<<"r","o","b","o","t">>), JNum(1)}
ReplyNames == {JNull, JStr(<<"A","l">>), JStr(<<"F","i","n","d">>), JStr(<<"m","a","l","e">>)}
ReplySorts == {JNull, JStr(<<"n","a","m","e","_","l","e","n","g","t","h">>), JList(<<>>)}
ReplyParities == {JNull, JStr(<<"o","d","d">>), JBool(TRUE)}
AIReplies ==
    {[kind |-> "json", value |-> JObj(r)] :
        r \in [gender : ReplyGenders, name_substr : ReplyNames, sort_by : ReplySorts,
               name_length_parity : ReplyParities]
              \cup [gender : ReplyGenders, name_substr : ReplyNames,
                    query_understood : {JBool(FALSE)}]}

InitFilters ==
    /\ USE_REDIS = FALSE
    /\ OLLAMA_CONFIGURED = FALSE
    /\ watched = NoWatch
    /\ CACHE_FILE = NoFile
    /\ IN_MEMORY_CACHE = EmptyDict
    /\ redis = EmptyDict
    /\ pc = [t \in Tasks |-> "idle"]
    /\ pending_query = [t \in Tasks |-> <<>>]
    /\ result = [t \in Tasks |-> <<>>]
    /\ tier = [t \in Tasks |-> "none"]
    /\ ai_outcome = [t \in Tasks |-> 0]
    /\ prior_at_start = [t \in Tasks |-> "none"]
    /\ first_result = <<>>
    /\ prior = "none"
    /\ last = Event("init", 0, NoLog)
    /\ norm_text = <<>>
    /\ norm_results = <<>>
    /\ heur_results = EmptyDict
    /\ ai_filters = <<>>
    /\ overtaken = [t \in Tasks |-> FALSE]
    /\ write_cap = 0
    /\ unsaved_writes = 0
    /\ \/ heur_query \in {<<q>> : q \in ParseInputs} /\ ai_reply = <<>>
       \/ heur_query = <<>> /\ ai_reply \in {<<o>> : o \in AIReplies}

Forms == {"raw", "normalized"}

\* simple_parse_query(normalized_query) or simple_parse_query(user_query): the two
\* calls of parse_query_ai
Parse(form) ==
    /\ heur_query # <<>>
    /\ form \notin DOMAIN heur_results
    /\ heur_results' = Put(heur_results, form,
                           simple_parse_query(IF form = "raw" THEN strip(heur_query[1])
                                              ELSE normalize_query(strip(heur_query[1]))))
    /\ UNCHANGED <<caches, USE_REDIS, OLLAMA_CONFIGURED, watched, pc, pending_query, result, tier,
                   ai_outcome, prior_at_start, first_result, prior, last, norm_text, norm_results,
                   heur_query, ai_reply, ai_filters, overtaken, write_cap, unsaved_writes>>

\* the try block of parse_query_ai applied to a response
Sanitize ==
    /\ ai_reply # <<>>
    /\ ai_filters = <<>>
    /\ ai_filters' = <<ParseAIResponse(ai_reply[1])>>
    /\ UNCHANGED <<caches, USE_REDIS, OLLAMA_CONFIGURED, watched, pc, pending_query, result, tier,
                   ai_outcome, prior_at_start, first_result, prior, last, norm_text, norm_results,
                   heur_query, heur_results, ai_reply, overtaken, write_cap, unsaved_writes>>

NextFilters ==
    \/ \E form \in Forms : Parse(form)
    \/ Sanitize

SpecFilters == InitFilters /\ [][NextFilters]_vars

(* ============================== properties ============================== *)

\* a well-formed FilterSpec: the nine fields of UserQueryFilters, each of its type
IsFilterSpec(f) ==
    /\ DOMAIN f = { "gender", "name_substr", "starts_with_mode", "name_length_parity",
                    "has_profile_pic", "sort_by", "sort_order", "query_understood",
                    "parse_warnings" }
    /\ f.gender \in {None, "Male", "Female", "Other"}
    /\ f.name_substr \in Seq(STRING)
    /\ f.starts_with_mode \in BOOLEAN
    /\ f.name_length_parity \in {None, "odd", "even"}
    /\ f.has_profile_pic \in {None, "True", "False"}
    /\ f.sort_by \in {None, "name_length", "username_length", "name", "username", "created_at"}
    /\ f.sort_order \in {"asc", "desc"}
    /\ f.query_understood \in BOOLEAN
    /\ f.parse_warnings \in Seq(STRING)

\* the step just taken is the return of task t's parse_query_ai
Returns(t) == last.task = t /\ last.op \in {"begin", "resume"} /\ pc[t] = "done"

C2_SecondResolutionNeverCallsAI ==
    \A t \in Tasks :
        (pending_query[t] = watched /\ tier[t] \in {"ai", "ai_failed"})
            => prior_at_start[t] = "none"

\* C2, amended: a resolution of a query whose earlier resolution in this process
\* returned a result other than the AI-failure default (and was not cleared since)
\* never reaches the AI tier; after a failed AI call the next resolution calls again.
C2_NoAICallAfterSuccessfulResolution ==
    \A t \in Tasks :
        (pending_query[t] = watched /\ tier[t] \in {"ai", "ai_failed"})
            => prior_at_start[t] # "ok"

\* the second resolution of "whose" (an AI-tier query) is answered by the cache
C2_Witness ==
    /\ watched = <<"w","h","o","s","e">>
    /\ Returns(1) /\ pending_query[1] = watched
    /\ prior_at_start[1] = "ok"
    /\ tier[1] = "cache"
    /\ first_result # <<>> /\ result[1] = first_result

\* C3: a resolution whose AI call fails (timeout, HTTP error, unparsable response,
\* missing configuration) returns the default FilterSpec (no filter, sort order
\* "desc", query_understood true, no warning) and its return leaves Redis, the
\* in-memory dict and the snapshot file as they were.
C3_AIFailureReturnsDefaultAndCachesNothing ==
    [][\A t \in Tasks :
          (last'.task = t /\ last'.op \in {"begin", "resume"} /\ tier'[t] = "ai_failed")
              => /\ pc'[t] = "done"
                 /\ result'[t] = << [ gender |-> "None", name_substr |-> <<>>,
                                      starts_with_mode |-> FALSE, name_length_parity |-> "None",
                                      has_profile_pic |-> "None", sort_by |-> "None",
                                      sort_order |-> "desc", query_understood |-> TRUE,
                                      parse_warnings |-> <<>> ] >>
                 /\ IN_MEMORY_CACHE' = IN_MEMORY_CACHE
                 /\ redis' = redis
                 /\ CACHE_FILE' = CACHE_FILE]_vars

\* an AI timeout returned the default while the caches held other entries
C3_Witness ==
    /\ Returns(1) /\ last.op = "resume"
    /\ AI_OUTCOMES[ai_outcome[1]].kind = "ReadTimeout"
    /\ tier[1] = "ai_failed"
    /\ IN_MEMORY_CACHE # EmptyDict
    /\ pending_query[1] \notin DOMAIN IN_MEMORY_CACHE

\* the tiers before the AI parser, in the order of the resolution
TierOrder == <<"cache", "pattern_raw", "pattern_normalized", "simple_normalized", "simple_raw">>

\* what a tier yields for the stripped query q in the current state: <<>> or <<FilterSpec>>
TierYields(tr, q) ==
    IF tr = "cache"
    THEN get_cached_query(q, IN_MEMORY_CACHE, redis, USE_REDIS, "ok").result
    ELSE IF tr = "pattern_raw"
    THEN IF lower(q) \in DOMAIN SIMPLE_QUERY_PATTERNS
         THEN <<SIMPLE_QUERY_PATTERNS[lower(q)]>> ELSE <<>>
    ELSE IF tr = "pattern_normalized"
    THEN IF normalize_func(q) \in DOMAIN SIMPLE_QUERY_PATTERNS
         THEN <<SIMPLE_QUERY_PATTERNS[normalize_func(q)]>> ELSE <<>>
    ELSE IF tr = "simple_normalized" THEN simple_parse(normalize_func(q))
    ELSE simple_parse(q)

\* C4: parse_query_ai returns the result of the first tier, in the order cache,
\* pattern table on the raw query, pattern table on the normalized query, heuristic
\* parser on the normalized query, heuristic parser on the raw query, that yields
\* one; it sends the AI request exactly when none of them yields a result.
C4_TiersInFixedOrder ==
    [][\A t \in Tasks :
          (last'.task = t /\ last'.op = "begin")
              => LET q == pending_query'[t]
                     hits == {i \in 1..Len(TierOrder) : TierYields(TierOrder[i], q) # <<>>}
                 IN  IF hits = {}
                     THEN pc'[t] = "ai_wait" /\ tier'[t] = "ai"
                     ELSE \E i \in hits :
                            /\ \A j \in hits : i <= j
                            /\ pc'[t] = "done"
                            /\ tier'[t] = TierOrder[i]
                            /\ result'[t] = TierYields(TierOrder[i], q)]_vars

\* "an" is normalized to the empty string, which no tier resolves; the heuristic
\* parser on the raw query is the first tier to yield a result
C4_Witness ==
    /\ Returns(1) /\ tier[1] = "simple_raw"
    /\ pending_query[1] = <<"a","n">>
    /\ result[1] = simple_parse(<<"a","n">>)
    /\ simple_parse(normalize_func(<<"a","n">>)) = <<>>

HeuristicallyResolvable(q) ==
    parse_query_ai(q, EmptyDict, EmptyDict, NoFile, FALSE, TRUE, NoFailure).kind = "return"

\* C6: for a query the pattern table or the heuristic parser resolves, every
\* resolution that does not call the AI client returns the FilterSpec of the first
\* resolution, whatever hits, writes, expiries, clears and other queries' resolutions
\* lie in between.
C6_RepeatedResolutionIsIdentical ==
    \A t \in Tasks :
        ( /\ pc[t] = "done"
          /\ pending_query[t] = watched
          /\ HeuristicallyResolvable(watched)
          /\ tier[t] \notin {"ai", "ai_failed"} )
            => result[t] = first_result

\* C7: normalize_query is idempotent: normalizing its own result changes nothing.
C7_NormalizeIsIdempotent ==
    Len(norm_results) = 2 => norm_results[2] = norm_results[1]

\* the tiers of parse_query_ai that end in cache_query
WriteTiers == {"pattern_raw", "pattern_normalized", "simple_normalized", "simple_raw", "ai"}

\* C8 as stated: after a resolution through the pattern table, the heuristic parser
\* or the AI parser, the in-memory dict, Redis (when connected) and the snapshot file
\* each hold the result under the raw query and under the normalized query, the
\* Redis entries with a time to live of 86400 seconds.
C8_EveryTierHoldsBothKeys ==
    \A t \in Tasks :
        (Returns(t) /\ tier[t] \in WriteTiers)
            => \A k \in {pending_query[t], normalize_func(pending_query[t])} :
                  /\ k \in DOMAIN IN_MEMORY_CACHE /\ IN_MEMORY_CACHE[k] = result[t][1]
                  /\ USE_REDIS =>
                        /\ redis_key(k) \in DOMAIN redis
                        /\ redis[redis_key(k)] = [value |-> dict(result[t][1]), ttl |-> 86400]
                  /\ CACHE_FILE.exists /\ CACHE_FILE.valid
                  /\ k \in DOMAIN CACHE_FILE.data
                  /\ FromDict(CACHE_FILE.data[k]) = result[t][1]

\* C8, amended: after such a resolution the in-memory dict holds the result under the
\* raw and under the normalized query. Redis, when connected and the write did not
\* fail, holds it under query:<normalized> only, with a time to live of 86400
\* seconds, and no other Redis key is touched; every query: key carries that time to
\* live. The snapshot file is written by the resolution only when the in-memory dict
\* then holds a multiple of 10 entries, and is then the whole dict.
C8_WriteBackPerTier ==
    [][\A t \in Tasks :
          (last'.task = t /\ last'.op \in {"begin", "resume"} /\ pc'[t] = "done"
              /\ tier'[t] \in WriteTiers)
              => LET q == pending_query'[t]
                     n == normalize_func(q)
                     r == result'[t][1]
                 IN  /\ q \in DOMAIN IN_MEMORY_CACHE' /\ IN_MEMORY_CACHE'[q] = r
                     /\ n \in DOMAIN IN_MEMORY_CACHE' /\ IN_MEMORY_CACHE'[n] = r
                     /\ (USE_REDIS /\ "redis" \notin last'.failed) =>
                           /\ redis_key(n) \in DOMAIN redis'
                           /\ redis'[redis_key(n)] = [value |-> dict(r), ttl |-> 86400]
                     /\ \A k \in DOMAIN redis' :
                           /\ k # redis_key(n) => k \in DOMAIN redis /\ redis'[k] = redis[k]
                           /\ startswith(k, NAMESPACE) => redis'[k].ttl = 86400
                     /\ IF Cardinality(DOMAIN IN_MEMORY_CACHE') % 10 = 0
                        THEN /\ CACHE_FILE'.exists /\ CACHE_FILE'.valid
                             /\ load_cache_from_file(CACHE_FILE', "ok") = IN_MEMORY_CACHE'
                        ELSE CACHE_FILE' = CACHE_FILE]_vars

\* "Find female" was resolved by the pattern table on its normalized form with Redis
\* connected: Redis holds query:show female and not query:Find female
C8_Witness ==
    /\ Returns(1) /\ tier[1] = "pattern_normalized"
    /\ pending_query[1] = <<"F","i","n","d"," ","f","e","m","a","l","e">>
    /\ USE_REDIS /\ last.failed = {}
    /\ redis_key(normalize_func(pending_query[1])) \in DOMAIN redis
    /\ redis_key(pending_query[1]) \notin DOMAIN redis
    /\ IN_MEMORY_CACHE[pending_query[1]] = IN_MEMORY_CACHE[normalize_func(pending_query[1])]

\* C9: clear_all_caches deletes from Redis only keys that start with "query:": every
\* other key keeps its value, and neither FLUSHALL nor FLUSHDB is ever sent.
C9_ClearAllKeepsForeignKeys ==
    [][ /\ last'.op = "clear" =>
              \A k \in DOMAIN redis :
                  ~startswith(k, NAMESPACE) => k \in DOMAIN redis' /\ redis'[k] = redis[k]
        /\ \A i \in 1..Len(last'.commands) : last'.commands[i] \notin {"flushall", "flushdb"}]_vars

\* a clear deleted the query: keys of a connected Redis and left the session key
C9_Witness ==
    /\ last.op = "clear" /\ USE_REDIS
    /\ last.commands = <<"keys", "delete">> /\ last.failed = {}
    /\ DOMAIN redis = ForeignKeys

\* C10: while a resolution waits for chat_completion, the step that belongs to it (the
\* arrival of the AI outcome) reads and writes no cache tier and leaves the three
\* tiers unchanged; its cache accesses lie in the steps before the request and after
\* the response. (The source holds no lock anywhere: other callers' steps may run.)
C10_NoCacheAccessDuringAICall ==
    [][\A t \in Tasks :
          (pc[t] = "ai_wait" /\ last'.task = t)
              => /\ last'.op \in {"chat_completion", "cancel"}
                 /\ last'.accessed = {}
                 /\ last'.commands = <<>>
                 /\ UNCHANGED caches]_vars

\* one caller's AI call has returned while the other's is still in flight
C10_Witness ==
    \E t, u \in Tasks :
        /\ t # u
        /\ pc[t] = "ai_got" /\ last.op = "chat_completion" /\ last.task = t
        /\ pc[u] = "ai_wait"

\* C11: a cancellation of the caller while the AI call is in flight ends the call at
\* the await: no response is taken and no continuation runs for it, and the
\* resolution has written nothing, neither in the step that sent the request nor in
\* the cancellation, so no tier holds one of its two entries without the other.
C11_CancelWritesNothing ==
    [][\A t \in Tasks :
          /\ (last'.task = t /\ last'.op = "begin" /\ pc'[t] = "ai_wait") => UNCHANGED caches
          /\ (last'.task = t /\ last'.op = "cancel")
                => /\ pc[t] \in {"ai_wait", "ai_got"}
                   /\ result'[t] = <<>>
                   /\ last'.accessed = {}
                   /\ UNCHANGED caches
                   /\ pc'[t] \notin {"ai_wait", "ai_got"}]_vars

\* a call was cancelled after its AI response had arrived, while the other caller's
\* resolution of the same query had filled the caches
C11_Witness ==
    /\ last.op = "cancel" /\ last.task = 1
    /\ tier[1] = "cancelled" /\ pc[1] = "done"
    /\ IN_MEMORY_CACHE # EmptyDict


\* the tokens that a name filter may not be: gender, command and sort words
ReservedTokens ==
    { <<"m","a","l","e">>, <<"f","e","m","a","l","e">>, <<"o","t","h","e","r">>, <<"f","i","n","d">>, <<"s","h","o","w">>, <<"l","i","s","t">>, <<"u","s","e","r">>, <<"u","s","e","r","s">>, <<"a","l","l">>,
      <<"l","o","n","g","e","s","t">>, <<"s","h","o","r","t","e","s","t">>, <<"n","e","w","e","s","t">>, <<"o","l","d","e","s","t">> }

HeuristicNameNotReserved ==
    \A form \in DOMAIN heur_results :
        heur_results[form] # <<>> => lower(heur_results[form][1].name_substr) \notin ReservedTokens

SanitizedNameNotReserved ==
    (ai_filters # <<>> /\ ai_filters[1] # <<>>)
        => lower(ai_filters[1][1].name_substr) \notin ReservedTokens

\* C12: in every FilterSpec produced by simple_parse_query or by the sanitizer of the
\* AI response, name_substr is never a reserved token (a gender word, a command word
\* or a sort word), compared without regard to case.
C12_NameSubstrNeverReserved ==
    HeuristicNameNotReserved /\ SanitizedNameNotReserved

\* a FilterSpec that carries no filter
CarriesNoFilter(f) ==
    /\ f.gender = None /\ f.name_substr = NoName /\ f.name_length_parity = None
    /\ f.has_profile_pic = None /\ f.sort_by = None

\* C13: every FilterSpec returned by parse_query_ai, from the heuristic tier, the AI
\* tier or the cache, has query_understood = FALSE only if it carries no filter and
\* its parse_warnings are not empty.
C13_NotUnderstoodOnlyWithoutFilter ==
    \A t \in Tasks :
        (Returns(t) /\ ~result[t][1].query_understood)
            => CarriesNoFilter(result[t][1]) /\ result[t][1].parse_warnings # <<>>


\* C14: the sanitization of an AI response is per field and fail-soft: the try block of
\* parse_query_ai never ends in a handler because of a field value; a gender that is
\* no valid gender (another text, or no string) comes out unset, and the valid values
\* of the other fields of the response are in the FilterSpec.
C14_SanitizationIsPerField ==
    (ai_reply # <<>> /\ ai_filters # <<>>)
        => /\ ai_filters[1] # <<>>
           /\ \A k \in DOMAIN ai_reply[1].value[2] :
                 /\ (k = "gender" /\ ai_reply[1].value[2][k] # JStr(<<"F","e","m","a","l","e">>))
                       => ai_filters[1][1].gender = None
                 /\ (k = "gender" /\ ai_reply[1].value[2][k] = JStr(<<"F","e","m","a","l","e">>))
                       => ai_filters[1][1].gender = "Female"
                 /\ (k = "name_substr" /\ ai_reply[1].value[2][k] = JStr(<<"A","l">>))
                       => ai_filters[1][1].name_substr = <<"A","l">>
                 /\ (k = "sort_by" /\ ai_reply[1].value[2][k] = JStr(<<"n","a","m","e","_","l","e","n","g","t","h">>))
                       => ai_filters[1][1].sort_by = "name_length"
                 /\ (k = "name_length_parity" /\ ai_reply[1].value[2][k] = JStr(<<"o","d","d">>))
                       => ai_filters[1][1].name_length_parity = "odd"

\* the text that simple_parse_query looks at for a form of the query under test
ParsedText(form) ==
    strip(lower(IF form = "raw" THEN strip(heur_query[1])
                ELSE normalize_query(strip(heur_query[1]))))

\* the gender of the result of a form, None when simple_parse_query returned nothing
ParsedGender(form) ==
    IF heur_results[form] = <<>> THEN None ELSE heur_results[form][1].gender

\* a gender word that stands where a name is expected ("named female")
NameNotGender(w, q) ==
    \E i \in 2..Len(split(q)) :
        /\ split(q)[i] = w
        /\ split(q)[i - 1] \in {<<"n","a","m","e","d">>, <<"c","a","l","l","e","d">>, <<"n","a","m","e">>}
        /\ \A j \in 1..(i - 1) : split(q)[j] # w

\* the indicators of the three genders in a lowered query
OtherPhrase(q) ==
    \/ \E s \in {<<"o","t","h","e","r"," ","g","e","n","d","e","r">>, <<"o","t","h","e","r","-","g","e","n","d","e","r">>, <<"n","o","n","-","b","i","n","a","r","y">>, <<"n","o","n"," ","b","i","n","a","r","y">>, <<"n","o","n","b","i","n","a","r","y">>} :
           contains(q, s)
    \/ <<"n","b">> \in WordSet(split(q))

OtherWord(q) ==
    /\ <<"o","t","h","e","r">> \in WordSet(split(q))
    /\ ~NameNotGender(<<"o","t","h","e","r">>, q)
    /\ contains(q, <<"g","e","n","d","e","r">>) \/ contains(q, <<"u","s","e","r">>)

FemaleIndicator(q) ==
    /\ ~NameNotGender(<<"f","e","m","a","l","e">>, q)
    /\ \/ WordSet(split(q)) \cap {<<"f","e","m","a","l","e">>, <<"w","o","m","a","n">>, <<"w","o","m","e","n">>, <<"l","a","d","y">>, <<"l","a","d","i","e","s">>} # {}
       \/ contains(q, <<"f","e","m","a","l","e">>)
       \/ /\ \E s \in {<<"f","m","a","l","e">>, <<"f","e","m","a","l">>, <<"f","e","m","a","i","l","s">>, <<"f","e","m","a","i","l">>} : contains(q, s)
          /\ <<"m","a","l","e">> \notin WordSet(split(q))

MaleIndicator(q) ==
    /\ ~NameNotGender(<<"m","a","l","e">>, q)
    /\ WordSet(split(q)) \cap {<<"m","a","l","e">>, <<"g","u","y">>, <<"g","u","y","s">>, <<"m","a","n">>, <<"m","e","n">>} # {}

ResultOf(t) == result[t][1]

\* C16 as stated: parse_query_ai gives name_substr "J" with starts_with_mode for "users
\* starting with J", name_substr "Adam" for "Adam", and no name_substr for "find Adam".
C16_FindAdamHasNoName ==
    \A t \in Tasks :
        Returns(t) =>
            /\ pending_query[t] = <<"u","s","e","r","s"," ","s","t","a","r","t","i","n","g"," ","w","i","t","h"," ","J">>
                  => ResultOf(t).name_substr = <<"J">> /\ ResultOf(t).starts_with_mode
            /\ pending_query[t] = <<"A","d","a","m">> => ResultOf(t).name_substr = <<"A","d","a","m">>
            /\ pending_query[t] = <<"f","i","n","d"," ","A","d","a","m">> => ResultOf(t).name_substr = NoName

\* C16, amended: "users starting with J" and "Adam" resolve as stated.  For "find
\* Adam" bare-name detection finds no name (a command word is present) and neither form
\* of the query is resolved by simple_parse_query, so the call goes to the AI tier:
\* its name_substr is the one of the sanitized AI response (or of the cache entry
\* written from it), and unset when the AI call fails or is not configured.
C16_FindAdamIsLeftToAI ==
    \A t \in Tasks :
        Returns(t) =>
            /\ pending_query[t] = <<"u","s","e","r","s"," ","s","t","a","r","t","i","n","g"," ","w","i","t","h"," ","J">>
                  => ResultOf(t).name_substr = <<"J">> /\ ResultOf(t).starts_with_mode
            /\ pending_query[t] = <<"A","d","a","m">> => ResultOf(t).name_substr = <<"A","d","a","m">>
            /\ pending_query[t] = <<"f","i","n","d"," ","A","d","a","m">>
                  => /\ detect_bare_name(<<"f","i","n","d"," ","a","d","a","m">>, <<"f","i","n","d"," ","A","d","a","m">>) = NoName
                     /\ tier[t] \in {"cache", "ai", "ai_failed"}
                     /\ tier[t] = "ai_failed" => ResultOf(t).name_substr = NoName
                     /\ tier[t] = "ai"
                           => <<ResultOf(t)>> = ParseAIResponse(AI_OUTCOMES[ai_outcome[t]])
                     /\ tier[t] = "cache"
                           => \E o \in Outcomes : <<ResultOf(t)>> = ParseAIResponse(AI_OUTCOMES[o])

\* "find Adam" came back from the AI tier with the name of the AI response
C16_Witness ==
    /\ Returns(1) /\ pending_query[1] = <<"f","i","n","d"," ","A","d","a","m">>
    /\ tier[1] = "ai"
    /\ ResultOf(1).name_substr = <<"A","l">>

\* a lowered query that joins the words male and female with "or", none of them
\* standing behind a name keyword
JoinsGendersWithOr(q) ==
    /\ \E i \in 2..(Len(split(q)) - 1) :
           /\ split(q)[i] = <<"o","r">>
           /\ split(q)[i - 1] \in {<<"m","a","l","e">>, <<"f","e","m","a","l","e">>}
           /\ split(q)[i + 1] \in {<<"m","a","l","e">>, <<"f","e","m","a","l","e">>}
    /\ WordSet(split(q)) \cap {<<"n","a","m","e","d">>, <<"c","a","l","l","e","d">>, <<"n","a","m","e">>} = {}

\* the gender word that stands first in the query
FirstGenderWord(q) ==
    LET words == split(q)
        i == CHOOSE i \in 1..Len(words) :
                 /\ words[i] \in {<<"m","a","l","e">>, <<"f","e","m","a","l","e">>}
                 /\ \A j \in 1..(i - 1) : words[j] \notin {<<"m","a","l","e">>, <<"f","e","m","a","l","e">>}
    IN  IF words[i] = <<"m","a","l","e">> THEN "Male" ELSE "Female"

\* what C17 says of every such query but the choice of the gender: the OR warning is
\* there, the other detectors' findings are in the result, the query counts as understood
OrWarningAndDetectors(form) ==
    /\ heur_results[form] # <<>>
    /\ \E i \in DOMAIN heur_results[form][1].parse_warnings :
           heur_results[form][1].parse_warnings[i] = WARN_OR_GENDER
    /\ heur_results[form][1].query_understood
    /\ heur_results[form][1].sort_by = detect_sorting(ParsedText(form))[1]
    /\ heur_results[form][1].has_profile_pic = detect_profile_pic_filter(ParsedText(form))
    /\ heur_results[form][1].name_length_parity = detect_name_length_parity(ParsedText(form))

HeuristicText(t) == strip(lower(normalize_func(pending_query[t])))

\* the warnings that the detectors collect for a lowered query
DetectorWarnings(q) ==
    detect_unsupported_patterns(q)
        \o (IF detect_gender(q)[2] # None THEN <<detect_gender(q)[2]>> ELSE <<>>)

\* the detectors find at least one warning and no filter in a lowered query
WarningsAndNoFilter(q) ==
    /\ DetectorWarnings(q) # <<>>
    /\ detect_gender(q)[1] = None
    /\ detect_sorting(q)[1] = None
    /\ detect_profile_pic_filter(q) = None
    /\ detect_name_length_parity(q) = None
    /\ detect_name_search(q, None, None)[1] = NoName
    /\ detect_bare_name(q, strip(q)) = NoName

\* the result of task t is in the cache like any other: in memory under the raw and
\* the normalized query, and in Redis (when connected) under the namespaced key
CachedLikeAnyOther(t) ==
    /\ pending_query[t] \in DOMAIN IN_MEMORY_CACHE
    /\ IN_MEMORY_CACHE[pending_query[t]] = ResultOf(t)
    /\ normalize_func(pending_query[t]) \in DOMAIN IN_MEMORY_CACHE
    /\ USE_REDIS => redis_key(normalize_func(pending_query[t])) \in DOMAIN redis

\* C18 as stated: whenever the detectors find at least one warning and no filter,
\* parse_query_ai returns query_understood = FALSE with all collected warnings, caches
\* the result, and no call for such a query ever waits for the AI client.
C18_WarningsOnlyNeverReachesAI ==
    \A t \in Tasks :
        (pc[t] \in {"ai_wait", "ai_got", "done"} /\ WarningsAndNoFilter(HeuristicText(t)))
            => /\ pc[t] = "done"
               /\ tier[t] \in {"simple_normalized", "cache"}
               /\ ~ResultOf(t).query_understood
               /\ ResultOf(t).parse_warnings = DetectorWarnings(HeuristicText(t))
               /\ CachedLikeAnyOther(t)

\* C18, amended: this holds whenever the detectors find at least one warning and no
\* filter and the query holds no complex marker word.  With a complex marker word
\* ("name ends with a") simple_parse_query returns unresolved, the warnings are
\* dropped and the call goes to the AI tier.
C18_WarningsOnlyWithoutComplexWord ==
    \A t \in Tasks :
        (pc[t] \in {"ai_wait", "ai_got", "done"} /\ WarningsAndNoFilter(HeuristicText(t)))
            => IF ~is_complex_query(HeuristicText(t))
               THEN /\ pc[t] = "done"
                    /\ tier[t] \in {"simple_normalized", "cache"}
                    /\ ~ResultOf(t).query_understood
                    /\ ResultOf(t).parse_warnings = DetectorWarnings(HeuristicText(t))
                    /\ CachedLikeAnyOther(t)
               ELSE tier[t] \in {"ai", "ai_failed", "cache"}

\* a later call for "not" was answered from the cache with the collected warning
C18_Witness ==
    /\ Returns(1) /\ pending_query[1] = <<"n","o","t">>
    /\ tier[1] = "cache"
    /\ ~ResultOf(1).query_understood
    /\ ResultOf(1).parse_warnings = <<WARN_NEGATION>>

\* C19: get_cached_query asks Redis under the namespaced normalized key first, then
\* the in-memory dict under the raw query, then the in-memory dict under the normalized
\* query, and returns the first entry found; when Redis and the in-memory dict hold
\* different FilterSpecs for a query, the one of Redis is returned.  A call is
\* answered from the cache exactly when one of the three holds an entry.
C19_LookupOrder ==
    [][\A t \in Tasks :
          (last'.task = t /\ last'.op = "begin")
              => IF /\ USE_REDIS /\ "redis" \notin last'.failed
                    /\ redis_key(normalize_func(pending_query'[t])) \in DOMAIN redis
                 THEN /\ tier'[t] = "cache"
                      /\ result'[t] =
                            <<FromDict(redis[redis_key(normalize_func(pending_query'[t]))].value)>>
                 ELSE IF pending_query'[t] \in DOMAIN IN_MEMORY_CACHE
                 THEN /\ tier'[t] = "cache"
                      /\ result'[t] = <<IN_MEMORY_CACHE[pending_query'[t]]>>
                 ELSE IF normalize_func(pending_query'[t]) \in DOMAIN IN_MEMORY_CACHE
                 THEN /\ tier'[t] = "cache"
                      /\ result'[t] = <<IN_MEMORY_CACHE[normalize_func(pending_query'[t])]>>
                 ELSE tier'[t] # "cache"]_vars

\* "an" was answered from Redis while the in-memory dict held another FilterSpec
\* under the normalized key
C19_Witness ==
    /\ Returns(1) /\ pending_query[1] = <<"a","n">> /\ tier[1] = "cache"
    /\ redis_key(normalize_func(<<"a","n">>)) \in DOMAIN redis
    /\ ResultOf(1) = FromDict(redis[redis_key(normalize_func(<<"a","n">>))].value)
    /\ normalize_func(<<"a","n">>) \in DOMAIN IN_MEMORY_CACHE
    /\ IN_MEMORY_CACHE[normalize_func(<<"a","n">>)] # ResultOf(1)

\* the step is a call of task t that Redis does not answer, that misses the raw query
\* in the in-memory dict and finds the normalized query there
FuzzyHit(t) ==
    /\ last'.task = t /\ last'.op = "begin"
    /\ ~( /\ USE_REDIS /\ "redis" \notin last'.failed
          /\ redis_key(normalize_func(pending_query'[t])) \in DOMAIN redis )
    /\ pending_query'[t] \notin DOMAIN IN_MEMORY_CACHE
    /\ normalize_func(pending_query'[t]) \in DOMAIN IN_MEMORY_CACHE

\* such a step returns the entry of the normalized key and stores it under the raw query
HealsExactKey(t) ==
    /\ tier'[t] = "cache"
    /\ result'[t] = <<IN_MEMORY_CACHE[normalize_func(pending_query'[t])]>>
    /\ pending_query'[t] \in DOMAIN IN_MEMORY_CACHE'
    /\ IN_MEMORY_CACHE'[pending_query'[t]] = IN_MEMORY_CACHE[normalize_func(pending_query'[t])]

\* C20 as stated: after a miss on the raw key and a hit on the normalized key, the
\* FilterSpec is stored under the raw key, and the next get of the query returns the
\* identical value from the exact key, whatever Redis does.
C20_NextGetHitsExactKey ==
    [][\A t \in Tasks :
          FuzzyHit(t)
              => /\ HealsExactKey(t)
                 /\ \A io \in RedisIO :
                       get_cached_query(pending_query'[t], IN_MEMORY_CACHE', redis', USE_REDIS,
                                        io).result = result'[t]]_vars

\* C20, amended: ... the FilterSpec is stored under the raw key, so that the next get
\* of the query that comes to the in-memory dict (Redis is not connected, fails or
\* holds no entry) hits the exact key with the identical value and writes nothing;
\* a get that Redis answers returns the entry of Redis.
C20_NextMemoryLookupHitsExactKey ==
    [][\A t \in Tasks :
          FuzzyHit(t)
              => /\ HealsExactKey(t)
                 /\ \A io \in RedisIO :
                       \E g \in {get_cached_query(pending_query'[t], IN_MEMORY_CACHE', redis',
                                                  USE_REDIS, io)} :
                           IF /\ USE_REDIS /\ io = "ok"
                              /\ redis_key(normalize_func(pending_query'[t])) \in DOMAIN redis'
                           THEN g.result = <<FromDict(redis'[redis_key(
                                                normalize_func(pending_query'[t]))].value)>>
                           ELSE g.result = result'[t] /\ g.memory = IN_MEMORY_CACHE']_vars

\* the first call for "an" since the last clear was answered from the entry that a
\* call for "my" left under the shared normalized key, and "an" is now a key itself
C20_Witness ==
    /\ watched = <<"a","n">> /\ Returns(1) /\ pending_query[1] = <<"a","n">>
    /\ prior_at_start[1] = "none" /\ tier[1] = "cache" /\ ~USE_REDIS
    /\ <<"a","n">> \in DOMAIN IN_MEMORY_CACHE
    /\ IN_MEMORY_CACHE[<<"a","n">>] = IN_MEMORY_CACHE[normalize_func(<<"a","n">>)]
    /\ ResultOf(1) = IN_MEMORY_CACHE[<<"a","n">>]

\* C21: the snapshot file is written on every SAVE_EVERY-th cache write, so it never
\* lags the memory tier by more than SAVE_EVERY calls of cache_query
C21_SnapshotLagsAtMostNWrites == unsaved_writes <= SAVE_EVERY

ColdResolution(q) ==
    parse_query_ai(q, EmptyDict, EmptyDict, NoFile, FALSE, TRUE, NoFailure).result

\* C23: a cache hit equals a cold resolution: for a query that the pattern table or the
\* heuristic parser resolves, parse_query_ai returns the FilterSpec it returns on empty
\* caches, whatever resolutions of other queries came before.
C23_WarmEqualsCold ==
    \A t \in Tasks :
        (Returns(t) /\ HeuristicallyResolvable(pending_query[t]))
            => result[t] = ColdResolution(pending_query[t])

\* the AI client has been called for task t's query and the call has not been used yet
AICallInFlight(t) == pc[t] \in {"ai_wait", "ai_got"}

\* C24: concurrent resolutions of one uncached query that needs the AI parser call the
\* AI client at most once: no two callers have an AI call for the same query in flight.
C24_OneAICallPerQuery ==
    \A t, u \in Tasks :
        (t # u /\ AICallInFlight(t) /\ AICallInFlight(u))
            => pending_query[t] # pending_query[u]

\* C25: clear_all_caches that ran while a call of parse_query_ai was waiting for the AI
\* client is not undone by that call: when the call returns it writes to no cache tier.
C25_ClearIsNotUndone ==
    \A t \in Tasks :
        (Returns(t) /\ overtaken[t]) => last.accessed = {}

\* no tier answers a lookup of one of the queries in the state given by its arguments
MissesEverywhere(memory, rds, use_redis) ==
    \A q \in MainQueries : get_cached_query(q, memory, rds, use_redis, "ok").result = <<>>

\* C26: clear_all_caches empties every tier even when its Redis delete or its rewrite of
\* the snapshot file fails: right after it every lookup misses, and every lookup still
\* misses when the process is restarted next.
C26_ClearAllIsEffective ==
    [][/\ last'.op = "clear" => MissesEverywhere(IN_MEMORY_CACHE', redis', USE_REDIS')
       /\ (last.op = "clear" /\ last'.op = "restart")
             => MissesEverywhere(IN_MEMORY_CACHE', redis', USE_REDIS')]_vars

\* the normalized form of a key of the in-memory dict
NormalizedKey(k) == IF k \in Stripped THEN normalize_func(k) ELSE normalize_query(k)

\* C27: the in-memory dict is consistent across keys: a key and its normalized form, when
\* both are present, map to equal FilterSpecs.
C27_MemoryConsistentAcrossKeys ==
    \A k \in DOMAIN IN_MEMORY_CACHE :
        NormalizedKey(k) \in DOMAIN IN_MEMORY_CACHE
            => IN_MEMORY_CACHE[k] = IN_MEMORY_CACHE[NormalizedKey(k)]

\* C28: a FilterSpec made from an AI response has query_understood true and no
\* parse_warnings, whatever keys the response holds.
C28_AIResultIsUnderstoodWithoutWarnings ==
    (ai_filters # <<>> /\ ai_filters[1] # <<>>)
        => /\ ai_filters[1][1].query_understood
           /\ ai_filters[1][1].parse_warnings = <<>>

\* C29: whatever the snapshot file holds when the process starts, a resolution answered
\* from the cache returns a well-formed FilterSpec: entries of the file that are no
\* valid FilterSpec were dropped at load and are never served.
C29_OnlyFilterSpecsAreServed ==
    \A t \in Tasks :
        (Returns(t) /\ tier[t] = "cache") => IsFilterSpec(ResultOf(t))

\* the argument that simple_parse_query got for a form of the query
ParsedArgument(form) ==
    IF form = "raw" THEN strip(heur_query[1]) ELSE normalize_query(strip(heur_query[1]))

\* no detector finds a filter in the argument x, and detect_bare_name finds no name
NothingDetected(x) ==
    /\ detect_gender(strip(lower(x)))[1] = None
    /\ detect_sorting(strip(lower(x)))[1] = None
    /\ detect_profile_pic_filter(strip(lower(x))) = None
    /\ detect_name_length_parity(strip(lower(x))) = None
    /\ detect_name_search(strip(lower(x)), None, None)[1] = NoName
    /\ detect_bare_name(strip(lower(x)), strip(x)) = NoName

\* C30: simple_parse_query returns None exactly when no detector finds a filter, no bare
\* name is found, and the query holds a complex word or no warning was collected; with a
\* complex word the collected warnings are dropped with the result.
C30_UnresolvedExactlyWhen ==
    \A form \in DOMAIN heur_results :
        heur_results[form] = <<>>
            <=> /\ NothingDetected(ParsedArgument(form))
                /\ \/ is_complex_query(ParsedText(form))
                   \/ DetectorWarnings(ParsedText(form)) = <<>>

\* a query without filter that holds a complex word and raises a warning was left
\* unresolved
C30_Witness ==
    /\ "raw" \in DOMAIN heur_results
    /\ heur_results["raw"] = <<>>
    /\ NothingDetected(ParsedArgument("raw"))
    /\ is_complex_query(ParsedText("raw"))
    /\ DetectorWarnings(ParsedText("raw")) # <<>>
====
